---- MODULE Spec2Model ----
(***************************************************************************)
(* A model of soustack-mcp-ingest (src/src/server.ts): the line-oriented   *)
(* JSON request server, its tool handlers and the recipe canonicalizer.    *)
(*                                                                         *)
(* JavaScript values are tagged records:                                   *)
(*   [t |-> "undefined"], [t |-> "null"], [t |-> "string", v |-> s],       *)
(*   [t |-> "number", v |-> n], [t |-> "boolean", v |-> b],                *)
(*   [t |-> "function", v |-> name],                                       *)
(*   [t |-> "array", v |-> <<items>>],                                     *)
(*   [t |-> "object", v |-> <<[k |-> key, v |-> value], ...>>]             *)
(* An object's properties are kept in JavaScript's own-property order.     *)
(***************************************************************************)
EXTENDS Integers, Sequences, FiniteSets, TLC

VARIABLES
    stdin,          \* lines of the input stream not yet delivered as 'line' events
    requests,       \* one record per delivered line: the async callback's position
    output,         \* what has been written to the output stream, write by write
    calls,          \* provider interactions so far (module loads, stage calls)
    ingestModule,   \* what import(resolveIngestModuleName()) yields in this process
    soustackModule, \* what import(resolveSoustackModuleName()) yields in this process
    canon,          \* the canonicalizer applied to a drawn recipe and slug hint
    applied         \* a helper of the server applied to drawn arguments

serverVars == <<stdin, requests, output, calls, ingestModule, soustackModule>>
vars == <<stdin, requests, output, calls, ingestModule, soustackModule, canon, applied>>

-----------------------------------------------------------------------------
(* JavaScript values *)

Undefined == [t |-> "undefined"]
Null == [t |-> "null"]
Str(s) == [t |-> "string", v |-> s]
Num(n) == [t |-> "number", v |-> n]
Bool(b) == [t |-> "boolean", v |-> b]
Fn(name) == [t |-> "function", v |-> name]
Arr(items) == [t |-> "array", v |-> items]
Obj(props) == [t |-> "object", v |-> props]
Prop(key, value) == [k |-> key, v |-> value]
EmptyObject == Obj(<<>>)

\* typeof value
TypeOf(value) ==
    IF value.t \in {"null", "array", "object"} THEN "object" ELSE value.t

IsArray(value) == value.t = "array"

\* Strings are TLA+ strings; the ones the code slices (trim, toLowerCase,
\* split, replace) are listed here with their characters.
StringTable ==
    << [s |-> "", c |-> <<>>],
       [s |-> " ", c |-> <<" ">>],
       [s |-> "  ", c |-> <<" ", " ">>],
       [s |-> "custom", c |-> <<"c", "u", "s", "t", "o", "m">>],
       [s |-> " custom ", c |-> <<" ", "c", "u", "s", "t", "o", "m", " ">>],
       [s |-> "pancakes", c |-> <<"p", "a", "n", "c", "a", "k", "e", "s">>],
       [s |-> " pancakes", c |-> <<" ", "p", "a", "n", "c", "a", "k", "e", "s">>],
       [s |-> "Pancakes", c |-> <<"P", "a", "n", "c", "a", "k", "e", "s">>],
       [s |-> "a-recipe", c |-> <<"a", "-", "r", "e", "c", "i", "p", "e">>],
       [s |-> "b-recipe", c |-> <<"b", "-", "r", "e", "c", "i", "p", "e">>],
       [s |-> "My Recipe!", c |-> <<"M", "y", " ", "R", "e", "c", "i", "p", "e", "!">>],
       [s |-> "my-recipe", c |-> <<"m", "y", "-", "r", "e", "c", "i", "p", "e">>],
       [s |-> "!!!", c |-> <<"!", "!", "!">>],
       [s |-> "Simple recipe", c |-> <<"S", "i", "m", "p", "l", "e", " ", "r", "e", "c", "i", "p", "e">>],
       [s |-> "simple-recipe", c |-> <<"s", "i", "m", "p", "l", "e", "-", "r", "e", "c", "i", "p", "e">>],
       [s |-> "recipe", c |-> <<"r", "e", "c", "i", "p", "e">>],
       [s |-> "a", c |-> <<"a">>],
       [s |-> "b", c |-> <<"b">>],
       [s |-> "B", c |-> <<"B">>],
       [s |-> "/a/b/Pancakes.txt", c |-> <<"/", "a", "/", "b", "/", "P", "a", "n", "c", "a", "k", "e", "s", ".", "t", "x", "t">>],
       [s |-> "Pancakes.txt", c |-> <<"P", "a", "n", "c", "a", "k", "e", "s", ".", "t", "x", "t">>],
       [s |-> "a\\b.c/", c |-> <<"a", "\\", "b", ".", "c", "/">>],
       [s |-> "b.c", c |-> <<"b", ".", "c">>],
       [s |-> "/", c |-> <<"/">>],
       [s |-> ".txt", c |-> <<".", "t", "x", "t">>],
       [s |-> "txt", c |-> <<"t", "x", "t">>],
       [s |-> "notes.v2.md", c |-> <<"n", "o", "t", "e", "s", ".", "v", "2", ".", "m", "d">>],
       [s |-> "notes-v2", c |-> <<"n", "o", "t", "e", "s", "-", "v", "2">>],
       [s |-> "notes.v2", c |-> <<"n", "o", "t", "e", "s", ".", "v", "2">>],
       [s |-> "Flour", c |-> <<"F", "l", "o", "u", "r">>],
       [s |-> "Pancakes\nFlour",
        c |-> <<"P", "a", "n", "c", "a", "k", "e", "s", "\n", "F", "l", "o", "u", "r">>] >>

InTable(s) == \E i \in DOMAIN StringTable : StringTable[i].s = s
Chars(s) == StringTable[CHOOSE i \in DOMAIN StringTable : StringTable[i].s = s].c
FromChars(chars) == StringTable[CHOOSE i \in DOMAIN StringTable : StringTable[i].c = chars].s

IsSpace(ch) == ch = " "

RECURSIVE TrimStart(_)
TrimStart(chars) ==
    IF chars # <<>> /\ IsSpace(Head(chars)) THEN TrimStart(Tail(chars)) ELSE chars

RECURSIVE TrimEnd(_)
TrimEnd(chars) ==
    IF chars # <<>> /\ IsSpace(chars[Len(chars)])
    THEN TrimEnd(SubSeq(chars, 1, Len(chars) - 1)) ELSE chars

TrimChars(chars) == TrimEnd(TrimStart(chars))

\* String.prototype.trim; a string that is not listed has no surrounding space
Trim(s) == IF InTable(s) THEN FromChars(TrimChars(Chars(s))) ELSE s

\* Boolean(value): JavaScript truthiness
Truthy(value) ==
    CASE value.t \in {"undefined", "null"} -> FALSE
      [] value.t = "boolean" -> value.v
      [] value.t = "number" -> value.v # 0
      [] value.t = "string" -> value.v # ""
      [] OTHER -> TRUE

\* String(index) for array indices
IndexKeys == <<"0", "1", "2">>
IsIndexKey(key) == \E i \in DOMAIN IndexKeys : IndexKeys[i] = key
IndexOfKey(key) == CHOOSE i \in DOMAIN IndexKeys : IndexKeys[i] = key

\* String.prototype.localeCompare restricted to the property names and messages
\* of the model: the position of a string in the collation order (punctuation,
\* symbols, digits, then letters with lower case before upper case).
Collation ==
    << "__proto__", "!!!", "$schema", "$schema must match soustack vNext.",
       "0", "1", "2", "a", "a-recipe", "b", "B", "b-recipe", "c", "d", "default",
       "endLine", "evidence", "ingredients", "instructions", "My Recipe!", "my-recipe", "name",
       "name is required.", "needs a", "needs b", "notes-v2", "pancakes", "profile",
       "profile must be soustack/recipe-lite.", "recipe", "recipe must be an object.",
       "simple-recipe", "skipped a", "skipped b", "source", "sourcePath", "stacks",
       "stacks must contain at least one entry.", "startLine", "title", "x-ingest", "z" >>
LocaleRank(s) == CHOOSE i \in DOMAIN Collation : Collation[i] = s
LocaleCompare(left, right) == LocaleRank(left) - LocaleRank(right)

Keys(props) == [i \in DOMAIN props |-> props[i].k]
HasOwn(props, key) == \E i \in DOMAIN props : props[i].k = key

\* Object.keys(value) / the keys of Object.entries(value) for an object or array
ObjectKeys(value) ==
    IF IsArray(value) THEN [i \in DOMAIN value.v |-> IndexKeys[i]]
    ELSE Keys(value.v)

\* value[key] for an own property of an object or an element of an array
Get(value, key) ==
    CASE value.t = "object" /\ HasOwn(value.v, key) ->
            value.v[CHOOSE i \in DOMAIN value.v : value.v[i].k = key].v
      [] value.t = "array" /\ IsIndexKey(key) /\ IndexOfKey(key) \in DOMAIN value.v ->
            value.v[IndexOfKey(key)]
      [] OTHER -> Undefined

\* Where a new own property lands: integer-like keys come first, ascending,
\* the other keys follow in creation order.
InsertAt(props, key) ==
    IF IsIndexKey(key)
    THEN Cardinality({i \in DOMAIN props :
            IsIndexKey(props[i].k) /\ IndexOfKey(props[i].k) < IndexOfKey(key)})
    ELSE Len(props)

\* CreateDataProperty: an own property is written whatever its name (computed
\* keys of an object literal, Object.fromEntries, JSON.parse).
Define(object, key, value) ==
    IF HasOwn(object.v, key)
    THEN Obj([i \in DOMAIN object.v |->
                IF object.v[i].k = key THEN Prop(key, value) ELSE object.v[i]])
    ELSE LET n == InsertAt(object.v, key)
         IN Obj(SubSeq(object.v, 1, n) \o <<Prop(key, value)>>
                \o SubSeq(object.v, n + 1, Len(object.v)))

\* object[key] = value on an ordinary object: the name __proto__ reaches the
\* inherited setter, which changes the prototype and creates no own property.
Assign(object, key, value) ==
    IF key = "__proto__" THEN object ELSE Define(object, key, value)

RECURSIVE FromEntries(_)
\* Object.fromEntries(entries)
FromEntries(entries) ==
    IF entries = <<>> THEN EmptyObject
    ELSE LET last == entries[Len(entries)]
         IN Define(FromEntries(SubSeq(entries, 1, Len(entries) - 1)), last.k, last.v)

\* Object.entries(value)
Entries(value) ==
    LET keys == ObjectKeys(value)
    IN [i \in DOMAIN keys |-> Prop(keys[i], Get(value, keys[i]))]

RECURSIVE SortStrings(_)
\* keys.sort((left, right) => left.localeCompare(right)): a stable insertion of
\* each string after the last one that does not compare greater.
SortStrings(strings) ==
    IF strings = <<>> THEN <<>>
    ELSE LET rest == SortStrings(SubSeq(strings, 1, Len(strings) - 1))
             x == strings[Len(strings)]
             n == Cardinality({i \in DOMAIN rest : LocaleCompare(rest[i], x) <= 0})
         IN SubSeq(rest, 1, n) \o <<x>> \o SubSeq(rest, n + 1, Len(rest))

-----------------------------------------------------------------------------
(* Canonicalizer: server.ts 273-275, 293-294, 390-441 *)

canonicalSchema == "https://spec.soustack.org/soustack.schema.json"
profileLite == "soustack/recipe-lite"
defaultStackKey == "default"

isRecord(value) == Truthy(value) /\ TypeOf(value) = "object"

\* a value handed back with its keys as they came
KeepsKeyOrder(value) == value

RECURSIVE sortObjectKeys(_)
RECURSIVE SortedReduce(_, _)
\* the reduce of sortObjectKeys over the first n sorted keys
SortedReduce(value, keys) ==
    IF keys = <<>> THEN EmptyObject
    ELSE LET key == keys[Len(keys)]
         IN Assign(SortedReduce(value, SubSeq(keys, 1, Len(keys) - 1)),
                   key, sortObjectKeys(Get(value, key)))

sortObjectKeys(value) ==
    IF IsArray(value) THEN Arr([i \in DOMAIN value.v |-> sortObjectKeys(value.v[i])])
    ELSE IF ~isRecord(value) THEN value
    ELSE SortedReduce(value, SortStrings(ObjectKeys(value)))

\* String(value) for the values the code stringifies: stack entries, error
\* list entries and thrown values
StringOf(value) ==
    CASE value.t = "string" -> value.v
      [] value.t = "number" /\ value.v \in 0..2 -> IndexKeys[value.v + 1]
      [] value.t = "boolean" -> IF value.v THEN "true" ELSE "false"
      [] value.t \in {"null", "undefined"} -> value.t
      [] value.t = "object" -> "[object Object]"
      [] value.t = "array" /\ value.v = <<>> -> ""

RECURSIVE StacksFromEntries(_)
StacksFromEntries(names) ==
    IF names = <<>> THEN EmptyObject
    ELSE Assign(StacksFromEntries(SubSeq(names, 1, Len(names) - 1)),
                names[Len(names)], Bool(TRUE))

\* a stacks map that wraps whatever the recipe carried under the default key
WrapsStacks(value, slug) == Define(EmptyObject, defaultStackKey, value)

resolveStacksMap(value, slug) ==
    IF isRecord(value) THEN sortObjectKeys(value)
    ELSE IF IsArray(value)
    THEN sortObjectKeys(StacksFromEntries([i \in DOMAIN value.v |-> StringOf(value.v[i])]))
    ELSE LET key == IF Truthy(slug) /\ Trim(slug.v) # "" THEN slug.v ELSE defaultStackKey
         IN Define(EmptyObject, key, Bool(TRUE))

RECURSIVE ObjectAssign(_, _)
\* Object.assign(target, source): every own property of source is set on target
ObjectAssign(target, props) ==
    IF props = <<>> THEN target
    ELSE Assign(ObjectAssign(target, SubSeq(props, 1, Len(props) - 1)),
                props[Len(props)].k, props[Len(props)].v)

\* a filter that lets the recipe's own $schema through
KeepsSchemaKey(key) == key # "profile" /\ key # "stacks"

\* the filter of canonicalizeRecipe's remainingEntries
IsRemainingKey(key) == key # "$schema" /\ key # "profile" /\ key # "stacks"

canonicalizeRecipe(recipe, slug) ==
    LET record == IF isRecord(recipe) THEN recipe ELSE EmptyObject
        profile == Get(record, "profile")
        n1 == Assign(EmptyObject, "$schema", Str(canonicalSchema))
        n2 == Assign(n1, "profile",
                     IF profile.t = "string" /\ Trim(profile.v) # ""
                     THEN profile ELSE Str(profileLite))
        n3 == Assign(n2, "stacks", resolveStacksMap(Get(record, "stacks"), slug))
        remainingEntries == SelectSeq(Entries(record), LAMBDA e : IsRemainingKey(e.k))
    IN ObjectAssign(n3, sortObjectKeys(FromEntries(remainingEntries)).v)

-----------------------------------------------------------------------------
(* Slugs: server.ts 443-474 *)

UpperCase == <<"B", "M", "P", "R", "S">>
LowerCase == <<"b", "m", "p", "r", "s">>

\* String.prototype.toLowerCase, character by character
LowerChar(ch) ==
    IF \E i \in DOMAIN UpperCase : UpperCase[i] = ch
    THEN LowerCase[CHOOSE i \in DOMAIN UpperCase : UpperCase[i] = ch]
    ELSE ch

\* the character class [a-z0-9]
IsSlugChar(ch) ==
    ch \in { "a", "b", "c", "d", "e", "i", "k", "l", "m", "n", "o", "p", "r", "s",
             "t", "u", "v", "x", "y", "0", "1", "2" }

RECURSIVE HyphenateRuns(_)
\* .replace(/[^a-z0-9]+/g, "-"): each maximal run of other characters becomes one hyphen
HyphenateRuns(chars) ==
    IF chars = <<>> THEN <<>>
    ELSE IF IsSlugChar(Head(chars)) THEN <<Head(chars)>> \o HyphenateRuns(Tail(chars))
    ELSE IF Len(chars) > 1 /\ ~IsSlugChar(chars[2]) THEN HyphenateRuns(Tail(chars))
    ELSE <<"-">> \o HyphenateRuns(Tail(chars))

\* .replace(/(^-|-$)/g, ""): one hyphen at the start and one at the end are removed
StripEdgeHyphens(chars) ==
    LET a == IF chars # <<>> /\ Head(chars) = "-" THEN Tail(chars) ELSE chars
    IN IF a # <<>> /\ a[Len(a)] = "-" THEN SubSeq(a, 1, Len(a) - 1) ELSE a

slugifyChars(chars) ==
    StripEdgeHyphens(HyphenateRuns([i \in DOMAIN TrimChars(chars) |-> LowerChar(TrimChars(chars)[i])]))

\* a slug that is the value as it came
Unslugged(value) == value

slugify(value) == FromChars(slugifyChars(Chars(value)))

RECURSIVE LastSegment(_, _)
\* sourcePath.split(/[\\/]/).filter(Boolean).pop(): the last non-empty segment,
\* <<>> when there is none; acc is the segment being read
LastSegment(chars, acc) ==
    IF chars = <<>> THEN acc
    ELSE IF Head(chars) \in {"/", "\\"}
    THEN LET rest == LastSegment(Tail(chars), <<>>)
         IN IF rest # <<>> THEN rest ELSE acc
    ELSE LastSegment(Tail(chars), acc \o <<Head(chars)>>)

\* match.replace(/\.[^.]+$/, ""): a final dot followed by at least one character
\* that is not a dot is cut off
StripExtension(chars) ==
    LET dots == {i \in DOMAIN chars : chars[i] = "."}
        last == CHOOSE i \in dots : \A j \in dots : j <= i
    IN IF dots # {} /\ last < Len(chars) THEN SubSeq(chars, 1, last - 1) ELSE chars

ensureSlug(slug, name, sourcePath) ==
    LET fromSlug == IF slug.t = "string" /\ Trim(slug.v) # "" THEN slugify(slug.v) ELSE ""
        fromName == IF name.t = "string" /\ Trim(name.v) # "" THEN slugify(name.v) ELSE ""
        match == LastSegment(Chars(sourcePath), <<>>)
        fromPath == IF match # <<>> THEN FromChars(slugifyChars(StripExtension(match))) ELSE ""
    IN IF fromSlug # "" THEN fromSlug
       ELSE IF fromName # "" THEN fromName
       ELSE IF fromPath # "" THEN fromPath
       ELSE "recipe"

-----------------------------------------------------------------------------
(* Request validators: server.ts 558-633, 660-874 *)

\* a number that JSON.parse read from an overflowing literal such as 1e999
Infinity == [t |-> "number", v |-> 1, inf |-> TRUE]

\* Number.isFinite(value)
IsFinite(value) == value.t = "number" /\ DOMAIN value = {"t", "v"}

\* left > right for numbers
Greater(left, right) ==
    IF IsFinite(left) /\ IsFinite(right) THEN left.v > right.v
    ELSE ~IsFinite(left) /\ IsFinite(right)

\* key in value, for the property names the validators probe
In(key, value) ==
    IF IsArray(value) THEN IsIndexKey(key) /\ IndexOfKey(key) \in DOMAIN value.v
    ELSE HasOwn(value.v, key)

\* one optional field of an options object: whether it is copied and the error it adds
OptionField(options, key, accepted, message) ==
    LET value == Get(options, key)
    IN IF ~In(key, options) THEN [set |-> FALSE, errors |-> <<>>]
       ELSE IF accepted THEN [set |-> TRUE, errors |-> <<>>]
       ELSE IF value # Undefined THEN [set |-> FALSE, errors |-> <<message>>]
       ELSE [set |-> FALSE, errors |-> <<>>]

RECURSIVE CopyOptions(_, _, _)
\* options = {} followed by the assignments of the accepted fields, in order
CopyOptions(source, fields, keys) ==
    IF keys = <<>> THEN EmptyObject
    ELSE LET key == keys[Len(keys)]
             copied == CopyOptions(source, fields, SubSeq(keys, 1, Len(keys) - 1))
         IN IF fields[Len(keys)].set THEN Assign(copied, key, Get(source, key)) ELSE copied

\* the errors of the first field that has any
FirstFieldErrors(fields) ==
    IF \A n \in DOMAIN fields : fields[n].errors = <<>> THEN <<>>
    ELSE fields[CHOOSE n \in DOMAIN fields :
                    /\ fields[n].errors # <<>>
                    /\ \A m \in 1..(n - 1) : fields[m].errors = <<>>].errors

RECURSIVE FieldErrors(_)
FieldErrors(fields) ==
    IF fields = <<>> THEN <<>>
    ELSE FieldErrors(SubSeq(fields, 1, Len(fields) - 1)) \o fields[Len(fields)].errors

\* the shared "options" block of the validators: the copied options object
\* (Undefined when absent or not an object) and the errors it adds
ParseOptions(input, keys, fields) ==
    LET options == Get(input, "options")
    IN IF ~(In("options", input) /\ options # Undefined)
       THEN [options |-> Undefined, errors |-> <<>>]
       ELSE IF ~isRecord(options)
       THEN [options |-> Undefined, errors |-> <<"options must be an object when provided.">>]
       ELSE [options |-> CopyOptions(options, fields, keys), errors |-> FieldErrors(fields)]

IngestOptionKeys == <<"emitFiles", "returnRecipes", "maxRecipes", "strictValidation">>

IngestOptionFields(options) ==
    << OptionField(options, "emitFiles", Get(options, "emitFiles").t = "boolean",
                   "options.emitFiles must be a boolean when provided."),
       OptionField(options, "returnRecipes", Get(options, "returnRecipes").t = "boolean",
                   "options.returnRecipes must be a boolean when provided."),
       OptionField(options, "maxRecipes", Get(options, "maxRecipes").t \in {"null", "number"},
                   "options.maxRecipes must be a number or null when provided."),
       OptionField(options, "strictValidation", Get(options, "strictValidation").t = "boolean",
                   "options.strictValidation must be a boolean when provided.") >>

parseIngestInput(input) ==
    LET given == Get(input, "inputPath")
        inputPath == IF given.t = "string" THEN given.v ELSE ""
        source == Obj(<<Prop("inputPath", Str(inputPath))>>)
        e1 == IF inputPath = "" THEN <<"inputPath must be a non-empty string.">> ELSE <<>>
        dir == Get(input, "outDir")
        outDir == IF In("outDir", input) /\ dir.t = "string" THEN dir ELSE Undefined
        e2 == IF In("outDir", input) /\ dir.t # "string" /\ dir # Undefined
              THEN <<"outDir must be a string when provided.">> ELSE <<>>
        opts == ParseOptions(input, IngestOptionKeys, IngestOptionFields(Get(input, "options")))
        errors == e1 \o e2 \o opts.errors
    IN IF Len(errors) > 0
       THEN [value |-> Undefined, errors |-> errors, source |-> source]
       ELSE [value |-> Obj(<<Prop("inputPath", Str(inputPath)), Prop("outDir", outDir),
                             Prop("options", opts.options)>>),
             errors |-> errors, source |-> source]

SegmentOptionKeys == <<"maxChunks">>

SegmentOptionFields(options) ==
    << OptionField(options, "maxChunks", Get(options, "maxChunks").t \in {"null", "number"},
                   "options.maxChunks must be a number or null when provided.") >>

parseSegmentInput(input) ==
    LET given == Get(input, "text")
        text == IF given.t = "string" THEN given.v ELSE ""
        e1 == IF text = "" THEN <<"text must be a non-empty string.">> ELSE <<>>
        opts == ParseOptions(input, SegmentOptionKeys, SegmentOptionFields(Get(input, "options")))
        errors == e1 \o opts.errors
    IN IF Len(errors) > 0
       THEN [value |-> Undefined, errors |-> errors]
       ELSE [value |-> Obj(<<Prop("text", Str(text)), Prop("options", opts.options)>>),
             errors |-> errors]

parseExtractInput(input) ==
    LET given == Get(input, "text")
        text == IF given.t = "string" THEN given.v ELSE ""
        e1 == IF text = "" THEN <<"text must be a non-empty string.">> ELSE <<>>
        chunkValue == Get(input, "chunk")
        e2 == IF ~isRecord(chunkValue) THEN <<"chunk must be an object.">> ELSE <<>>
        startLine == IF isRecord(chunkValue) THEN Get(chunkValue, "startLine") ELSE Undefined
        endLine == IF isRecord(chunkValue) THEN Get(chunkValue, "endLine") ELSE Undefined
        titleGuess == IF isRecord(chunkValue) THEN Get(chunkValue, "titleGuess") ELSE Undefined
        e3 == IF ~IsFinite(startLine) THEN <<"chunk.startLine must be a number.">>
              ELSE IF startLine.v <= 0 THEN <<"chunk.startLine must be greater than zero.">>
              ELSE <<>>
        e4 == IF ~IsFinite(endLine) THEN <<"chunk.endLine must be a number.">>
              ELSE IF endLine.v <= 0 THEN <<"chunk.endLine must be greater than zero.">>
              ELSE <<>>
        e5 == IF IsFinite(startLine) /\ IsFinite(endLine) /\ startLine.v > endLine.v
              THEN <<"chunk.startLine must be less than or equal to chunk.endLine.">>
              ELSE <<>>
        e6 == IF titleGuess # Undefined /\ titleGuess.t # "string"
              THEN <<"chunk.titleGuess must be a string when provided.">> ELSE <<>>
        errors == e1 \o e2 \o e3 \o e4 \o e5 \o e6
    IN IF Len(errors) > 0
       THEN [value |-> Undefined, errors |-> errors]
       ELSE [value |-> Obj(<<Prop("text", Str(text)),
                             Prop("chunk", Obj(<<Prop("startLine", startLine),
                                                 Prop("endLine", endLine),
                                                 Prop("titleGuess", titleGuess)>>))>>),
             errors |-> errors]

\* Array.isArray(value) && !value.some((item) => typeof item !== "string")
IsStringArray(value) ==
    IsArray(value) /\ \A i \in DOMAIN value.v : value.v[i].t = "string"

\* parseIntermediateInput(input, errors) with the empty list its caller passes:
\* the errors it pushes and the value it returns
parseIntermediateInput(input) ==
    LET intermediate == Get(input, "intermediate")
        title == Get(intermediate, "title")
        ingredients == Get(intermediate, "ingredients")
        instructions == Get(intermediate, "instructions")
        source == Get(intermediate, "source")
        startLine == Get(source, "startLine")
        endLine == Get(source, "endLine")
        evidence == Get(source, "evidence")
        e1 == IF title.t # "string" \/ Trim(title.v) = ""
              THEN <<"intermediate.title must be a non-empty string.">> ELSE <<>>
        e2 == IF ~IsStringArray(ingredients)
              THEN <<"intermediate.ingredients must be an array of strings.">> ELSE <<>>
        e3 == IF ~IsStringArray(instructions)
              THEN <<"intermediate.instructions must be an array of strings.">> ELSE <<>>
        e4 == IF source = Undefined THEN <<>>
              ELSE IF ~isRecord(source)
              THEN <<"intermediate.source must be an object when provided.">>
              ELSE (IF startLine # Undefined /\ ~IsFinite(startLine)
                    THEN <<"intermediate.source.startLine must be a number when provided.">>
                    ELSE <<>>)
                \o (IF endLine # Undefined /\ ~IsFinite(endLine)
                    THEN <<"intermediate.source.endLine must be a number when provided.">>
                    ELSE <<>>)
                \o (IF startLine.t = "number" /\ endLine.t = "number" /\ Greater(startLine, endLine)
                    THEN <<"intermediate.source.startLine must be less than or equal to intermediate.source.endLine.">>
                    ELSE <<>>)
                \o (IF evidence # Undefined /\ evidence.t # "string"
                    THEN <<"intermediate.source.evidence must be a string when provided.">>
                    ELSE <<>>)
        errors == e1 \o e2 \o e3 \o e4
    IN IF ~isRecord(intermediate)
       THEN [value |-> Undefined, errors |-> <<"intermediate must be an object.">>]
       ELSE IF Len(errors) > 0 THEN [value |-> Undefined, errors |-> errors]
       ELSE [value |-> Obj(<<Prop("title", title), Prop("ingredients", ingredients),
                             Prop("instructions", instructions), Prop("source", source)>>),
             errors |-> errors]

ToSoustackOptionKeys == <<"sourcePath">>

ToSoustackOptionFields(options) ==
    << OptionField(options, "sourcePath", Get(options, "sourcePath").t = "string",
                   "options.sourcePath must be a string when provided.") >>

parseToSoustackInput(input) ==
    LET parsed == parseIntermediateInput(input)
        opts == ParseOptions(input, ToSoustackOptionKeys, ToSoustackOptionFields(Get(input, "options")))
        errors == parsed.errors \o opts.errors
    IN IF Len(errors) > 0 \/ parsed.value = Undefined
       THEN [value |-> Undefined, errors |-> errors]
       ELSE [value |-> Obj(<<Prop("intermediate", parsed.value),
                             Prop("options", opts.options)>>),
             errors |-> errors]

parseValidateInput(input) ==
    LET recipe == Get(input, "recipe")
        errors == IF ~isRecord(recipe) THEN <<"recipe must be an object.">> ELSE <<>>
    IN IF Len(errors) > 0
       THEN [value |-> Undefined, errors |-> errors]
       ELSE [value |-> Obj(<<Prop("recipe", recipe)>>), errors |-> errors]

-----------------------------------------------------------------------------
(* Provider adapter: server.ts 296-388, 876-1042 *)

\* a thrown Error with its message; other thrown values are plain values
ErrorOf(message) == [t |-> "error", v |-> message]

\* error instanceof Error ? error.message : String(error)
ErrorMessage(error) == IF error.t = "error" THEN error.v ELSE StringOf(error)

Returned(value) == [kind |-> "return", value |-> value]
Thrown(error) == [kind |-> "throw", error |-> error]
Hangs == [kind |-> "hang"]

\* candidates.find((candidate) => typeof candidate === "function")
RECURSIVE FindFunction(_)
FindFunction(candidates) ==
    IF candidates = <<>> THEN Undefined
    ELSE IF Head(candidates).t = "function" THEN Head(candidates)
    ELSE FindFunction(Tail(candidates))

\* isRecord(holder) ? holder[key] : undefined
Member(holder, key) == IF isRecord(holder) THEN Get(holder, key) ELSE Undefined

\* isRecord(holder) && isRecord(holder.stages) ? holder.stages[key] : undefined
StageMember(holder, key) ==
    IF isRecord(holder) /\ isRecord(Get(holder, "stages"))
    THEN Get(Get(holder, "stages"), key) ELSE Undefined

\* the handler found, or the Error thrown when there is none
Resolved(candidates, message) ==
    LET handler == FindFunction(candidates)
    IN IF ~Truthy(handler) THEN Thrown(ErrorOf(message)) ELSE Returned(handler)

resolveIngestHandler(module) ==
    LET defaultExport == Get(module, "default")
    IN Resolved(<< Get(module, "ingestDocument"), Get(module, "ingest"),
                   Get(module, "runIngest"), Get(module, "run"), defaultExport,
                   Member(defaultExport, "ingestDocument"), Member(defaultExport, "ingest"),
                   Member(defaultExport, "runIngest"), Member(defaultExport, "run") >>,
                "soustack-ingest did not expose a usable ingest function.")

resolveSoustackValidator(module) ==
    LET defaultExport == Get(module, "default")
    IN Resolved(<< Get(module, "validateRecipe"), Get(module, "validate"),
                   Get(module, "validateRecipePayload"),
                   Member(defaultExport, "validateRecipe"), Member(defaultExport, "validate") >>,
                "soustack did not expose a validator.")

resolveNormalizeStage(module) ==
    LET defaultExport == Get(module, "default")
    IN Resolved(<< Get(module, "normalize"), Get(module, "normalizeText"),
                   Get(module, "normalizeInput"),
                   Member(defaultExport, "normalize"), Member(defaultExport, "normalizeText") >>,
                "soustack-ingest did not expose a normalize stage.")

resolveSegmentStage(module) ==
    LET defaultExport == Get(module, "default")
    IN Resolved(<< Get(module, "segment"), Get(module, "segmentText"),
                   Get(module, "segmentLines"),
                   Member(defaultExport, "segment"), Member(defaultExport, "segmentText"),
                   StageMember(defaultExport, "segment"), StageMember(module, "segment") >>,
                "soustack-ingest did not expose a segment stage.")

resolveExtractStage(module) ==
    LET defaultExport == Get(module, "default")
    IN Resolved(<< Get(module, "extract"), Get(module, "extractRecipe"),
                   Get(module, "extractChunk"),
                   Member(defaultExport, "extract"), Member(defaultExport, "extractRecipe"),
                   Member(defaultExport, "extractChunk"),
                   StageMember(defaultExport, "extract"), StageMember(module, "extract") >>,
                "soustack-ingest did not expose an extract stage.")

resolveToSoustackStage(module) ==
    LET defaultExport == Get(module, "default")
    IN Resolved(<< Get(module, "toSoustack"), Member(defaultExport, "toSoustack"),
                   StageMember(defaultExport, "toSoustack"), StageMember(module, "toSoustack") >>,
                "soustack-ingest did not expose a toSoustack stage.")

resolveValidateStage(module) ==
    LET defaultExport == Get(module, "default")
    IN Resolved(<< Get(module, "validate"), Member(defaultExport, "validate"),
                   StageMember(defaultExport, "validate"), StageMember(module, "validate") >>,
                "soustack-ingest did not expose a validate stage.")

buildErrorList(value) ==
    IF ~isRecord(value) THEN <<>>
    ELSE LET errors == Get(value, "errors")
         IN IF ~IsArray(errors) THEN <<>>
            ELSE SortStrings([i \in DOMAIN errors.v |-> StringOf(errors.v[i])])

normalizeValidationResult(result) ==
    IF ~isRecord(result)
    THEN [ok |-> FALSE, errors |-> <<"Validator returned an invalid result.">>]
    ELSE [ok |-> Get(result, "ok") = Bool(TRUE), errors |-> buildErrorList(result)]

extractSegmentChunks(value) ==
    IF IsArray(value) THEN value
    ELSE IF isRecord(value) /\ IsArray(Get(value, "chunks")) THEN Get(value, "chunks")
    ELSE Arr(<<>>)

RECURSIVE SplitChars(_, _, _)
\* the pieces of chars between occurrences of the separator
SplitChars(chars, separator, piece) ==
    IF chars = <<>> THEN <<piece>>
    ELSE IF Head(chars) = separator
    THEN <<piece>> \o SplitChars(Tail(chars), separator, <<>>)
    ELSE SplitChars(Tail(chars), separator, piece \o <<Head(chars)>>)

\* text.split("\n") as an array of strings
SplitLines(text) ==
    LET pieces == SplitChars(Chars(text), "\n", <<>>)
    IN Arr([i \in DOMAIN pieces |-> Str(FromChars(pieces[i]))])

resolveNormalizedLines(normalized) ==
    IF normalized.t = "string" THEN SplitLines(normalized.v)
    ELSE IF isRecord(normalized) /\ Get(normalized, "text").t = "string"
    THEN SplitLines(Get(normalized, "text").v)
    ELSE Arr(<<>>)

-----------------------------------------------------------------------------
(* The two providers: what a loaded module exports and what its functions do.
   The fixture functions follow src/tests/fixtures; the others are providers
   that misbehave in the ways the adapter has to cope with. *)

\* a value JSON.stringify refuses (a BigInt)
BigInt == [t |-> "bigint"]

SampleChunk ==
    Obj(<<Prop("startLine", Num(1)), Prop("endLine", Num(1)), Prop("confidence", Num(1)),
          Prop("titleGuess", Str("Pancakes"))>>)

\* fixtures/soustack-ingest.ts: resolveText, then .replace(/\r\n/g, "\n").trim()
FixtureNormalize(args) ==
    LET input == args[1]
        text == IF input.t = "string" THEN input ELSE Get(input, "text")
    IN IF text.t = "string" THEN Returned(Str(Trim(text.v)))
       ELSE Thrown(ErrorOf("Cannot read properties of undefined (reading 'replace')"))

\* fixtures/soustack-ingest.ts, toSoustack
FixtureToSoustack(args) ==
    LET intermediate == args[1]
        options == args[2]
    IN Returned(Obj(<<Prop("name", Get(intermediate, "title")),
                      Prop("ingredients", Get(intermediate, "ingredients")),
                      Prop("instructions", Get(intermediate, "instructions")),
                      Prop("x-ingest",
                           Obj(<<Prop("sourcePath", Get(options, "sourcePath")),
                                 Prop("source", Get(intermediate, "source"))>>))>>))

\* fixtures/soustack-ingest.ts, validate
FixtureIngestValidate(args) ==
    LET name == Get(args[1], "name")
    IN IF Truthy(name) /\ name.t # "string"
       THEN Thrown(ErrorOf("recipe.name.trim is not a function"))
       ELSE IF ~Truthy(name) \/ Trim(name.v) = ""
       THEN Returned(Obj(<<Prop("ok", Bool(FALSE)),
                           Prop("errors", Arr(<<Str("name is required.")>>))>>))
       ELSE Returned(Obj(<<Prop("ok", Bool(TRUE)), Prop("errors", Arr(<<>>))>>))

fixtureSchema == "https://soustack.dev/schema/recipe-vNext.json"

\* fixtures/soustack.ts, isRecord
FixtureIsRecord(value) == Truthy(value) /\ TypeOf(value) = "object" /\ ~IsArray(value)

\* fixtures/soustack.ts, performValidation
performValidation(recipe) ==
    LET name == Get(recipe, "name")
        stacks == Get(recipe, "stacks")
        errors ==
            (IF name.t # "string" \/ Trim(name.v) = ""
             THEN <<Str("name is required.")>> ELSE <<>>)
         \o (IF Get(recipe, "$schema") # Str(fixtureSchema)
             THEN <<Str("$schema must match soustack vNext.")>> ELSE <<>>)
         \o (IF Get(recipe, "profile") # Str(profileLite)
             THEN <<Str("profile must be soustack/recipe-lite.")>> ELSE <<>>)
         \o (IF ~FixtureIsRecord(stacks) \/ Len(stacks.v) = 0
             THEN <<Str("stacks must contain at least one entry.")>> ELSE <<>>)
    IN IF ~FixtureIsRecord(recipe)
       THEN Obj(<<Prop("ok", Bool(FALSE)),
                  Prop("errors", Arr(<<Str("recipe must be an object.")>>))>>)
       ELSE Obj(<<Prop("ok", Bool(errors = <<>>)), Prop("errors", Arr(errors))>>)

SimpleEntry ==
    Obj(<<Prop("name", Str("Simple recipe")),
          Prop("recipe", Obj(<<Prop("name", Str("Simple recipe"))>>))>>)
EntryB ==
    Obj(<<Prop("slug", Str("b-recipe")), Prop("name", Str("B")),
          Prop("recipe", Obj(<<Prop("name", Str("B")), Prop("stacks", Arr(<<Str("b")>>))>>))>>)
EntryA ==
    Obj(<<Prop("slug", Str("a-recipe")), Prop("recipe", Obj(<<Prop("z", Num(1))>>))>>)
OddEntries ==
    << Obj(<<Prop("slug", Str("My Recipe!")), Prop("name", Str(" ")),
             Prop("recipe", Str("pancakes"))>>),
       Obj(<<Prop("slug", Str("!!!")), Prop("name", Num(1)),
             Prop("recipe", Obj(<<Prop("name", Str("Pancakes"))>>))>>),
       Num(1) >>
TiedEntries ==
    << Obj(<<Prop("slug", Str("b-recipe")), Prop("name", Str("b"))>>),
       Obj(<<Prop("slug", Str("a-recipe")), Prop("name", Str("B"))>>),
       Obj(<<Prop("slug", Str("a-recipe")), Prop("name", Str("b"))>>) >>
SampleEmitted ==
    Obj(<<Prop("outDir", Str("/out")), Prop("indexPath", Str("/out/index.json")),
          Prop("recipesDir", Str("/out/recipes")), Prop("count", Num(2))>>)

\* what a document-level ingest function may hand back
DocumentResults ==
    { Obj(<<Prop("recipes", Arr(<<SimpleEntry>>))>>),
      Obj(<<Prop("recipes", Arr(<<EntryB, EntryA>>)), Prop("emitted", SampleEmitted)>>),
      Obj(<<Prop("recipes", Arr(OddEntries))>>),
      Obj(<<Prop("recipes", Arr(TiedEntries))>>),
      Obj(<<Prop("ok", Bool(TRUE)), Prop("errors", Arr(<<Str("skipped b"), Str("skipped a")>>)),
            Prop("recipes", Arr(<<SimpleEntry>>))>>),
      Obj(<<Prop("ok", Bool(FALSE)), Prop("errors", Arr(<<Str("skipped b"), Str("skipped a")>>)),
            Prop("recipes", Arr(<<SimpleEntry>>)), Prop("emitted", SampleEmitted)>>),
      Obj(<<Prop("ok", Bool(FALSE))>>),
      Obj(<<Prop("recipes", Arr(<<Null>>))>>),
      Obj(<<Prop("recipes", Str("none"))>>),
      SampleEmitted,
      Undefined }

\* the outcomes of calling the provider function of this name with these arguments
ProviderCall(name, args) ==
    CASE name = "normalize" -> { FixtureNormalize(args) }
      [] name = "normalizeRecord" ->
            IF args[1].t = "string"
            THEN { Thrown(ErrorOf("normalize expects a record.")) }
            ELSE { Returned(Obj(<<Prop("text", Str(Trim(Get(args[1], "text").v)))>>)),
                   Returned(Str(Trim(Get(args[1], "text").v))) }
      [] name = "normalizeFails" -> { Thrown(ErrorOf("Normalization failed.")) }
      [] name = "segment" ->
            { Returned(Obj(<<Prop("chunks", Arr(<<SampleChunk>>))>>)) }
      [] name = "segmentRecord" ->
            { IF args[1].t = "object" /\ HasOwn(args[1].v, "text")
              THEN Returned(Arr(<<SampleChunk>>))
              ELSE Thrown(ErrorOf("segment expects a record.")) }
      [] name = "segmentOdd" ->
            { Returned(Obj(<<Prop("chunks", Arr(<<Obj(<<Prop("startLine", BigInt)>>)>>))>>)),
              Returned(Null), Thrown(Str("segment exploded")) }
      [] name = "extract" ->
            { Returned(Obj(<<Prop("title", Str("Pancakes")),
                             Prop("ingredients", Arr(<<Str("Flour")>>)),
                             Prop("instructions", Arr(<<>>)),
                             Prop("source", Obj(<<Prop("startLine", Get(args[1], "startLine")),
                                                  Prop("endLine", Get(args[1], "endLine")),
                                                  Prop("evidence", Get(args[1], "titleGuess"))>>))>>)),
              Thrown(ErrorOf("Nothing to extract.")) }
      [] name = "toSoustack" -> { FixtureToSoustack(args) }
      [] name = "toSoustackOdd" ->
            { Returned(Str("pancakes")),
              Returned(Obj(<<Prop("$schema", Str(fixtureSchema)), Prop("stacks", Arr(<<>>)),
                             Prop("name", Str("Pancakes"))>>)),
              Thrown(ErrorOf("Conversion failed.")) }
      [] name = "ingestValidate" -> { FixtureIngestValidate(args) }
      [] name = "validate" -> { Returned(performValidation(args[1])) }
      [] name = "validateLenient" ->
            { Returned(Obj(<<Prop("ok", Bool(TRUE)), Prop("errors", Arr(<<>>))>>)) }
      [] name = "validateOdd" ->
            { Returned(Obj(<<Prop("ok", Bool(FALSE))>>)), Returned(Str("no")),
              Returned(Obj(<<Prop("ok", Bool(FALSE)),
                             Prop("errors", Arr(<<Str("needs b"), Str("needs a")>>))>>)),
              Thrown(ErrorOf("Validator crashed.")) }
      [] name = "ingest" -> { Returned(result) : result \in DocumentResults }
      [] name = "ingestFails" ->
            { Thrown(ErrorOf("Ingest crashed.")), Thrown(Str("nothing ingested")) }
      [] name = "hang" -> { Hangs }

\* modules import(resolveIngestModuleName()) may yield; an error value stands for
\* an import that rejects
IngestTopLevel ==
    Obj(<<Prop("normalize", Fn("normalize")), Prop("segment", Fn("segment")),
          Prop("extract", Fn("extract")), Prop("toSoustack", Fn("toSoustack")),
          Prop("validate", Fn("ingestValidate")), Prop("ingest", Fn("ingest")),
          Prop("default", Obj(<<Prop("normalize", Fn("normalize")),
                                Prop("segment", Fn("segment")),
                                Prop("extract", Fn("extract")),
                                Prop("toSoustack", Fn("toSoustack")),
                                Prop("validate", Fn("ingestValidate"))>>))>>)
IngestDefaultOnly ==
    Obj(<<Prop("default",
               Obj(<<Prop("normalize", Fn("normalizeRecord")),
                     Prop("run", Fn("ingestFails")),
                     Prop("stages", Obj(<<Prop("segment", Fn("segmentRecord")),
                                          Prop("extract", Fn("extract")),
                                          Prop("toSoustack", Fn("toSoustackOdd"))>>))>>))>>)
IngestOdd ==
    Obj(<<Prop("normalizeText", Fn("normalizeFails")), Prop("segmentText", Fn("segmentOdd")),
          Prop("extractChunk", Fn("hang")), Prop("default", Fn("hang")),
          Prop("stages", Obj(<<Prop("toSoustack", Fn("hang"))>>))>>)
IngestSegmentOdd ==
    Obj(<<Prop("normalize", Fn("normalize")), Prop("segmentLines", Fn("segmentOdd"))>>)
IngestMissing == ErrorOf("Cannot find package 'soustack-ingest'")

IngestModules == { IngestTopLevel, IngestDefaultOnly, IngestOdd, IngestSegmentOdd,
                   EmptyObject, IngestMissing }

SoustackFixture ==
    Obj(<<Prop("validateRecipe", Fn("validate")), Prop("validate", Fn("validate")),
          Prop("validateRecipePayload", Fn("validate")),
          Prop("default", Obj(<<Prop("validateRecipe", Fn("validate")),
                                Prop("validate", Fn("validate")),
                                Prop("validateRecipePayload", Fn("validate"))>>))>>)
SoustackLenient == Obj(<<Prop("default", Obj(<<Prop("validate", Fn("validateLenient"))>>))>>)
SoustackOdd == Obj(<<Prop("validateRecipePayload", Fn("validateOdd"))>>)
SoustackHangs == Obj(<<Prop("validate", Fn("hang"))>>)
SoustackMissing == ErrorOf("Cannot find package 'soustack'")

SoustackModules == { SoustackFixture, SoustackLenient, SoustackOdd, SoustackHangs,
                     EmptyObject, SoustackMissing }

\* await import(name): the module, or the rejection
ImportOutcome(module) == IF module.t = "error" THEN Thrown(module) ELSE Returned(module)

-----------------------------------------------------------------------------
(* Document orchestrator: server.ts 315-346, 476-556, 635-658 *)

\* the template strings `[${slug}] ${message}` the model can build:
\* <<slug, message, result>>
PrefixTable ==
    << <<"simple-recipe", "Validation failed.", "[simple-recipe] Validation failed.">>,
       <<"my-recipe", "Validation failed.", "[my-recipe] Validation failed.">>,
       <<"my-recipe", "name is required.", "[my-recipe] name is required.">>,
       <<"my-recipe", "$schema must match soustack vNext.", "[my-recipe] $schema must match soustack vNext.">>,
       <<"my-recipe", "profile must be soustack/recipe-lite.", "[my-recipe] profile must be soustack/recipe-lite.">>,
       <<"my-recipe", "stacks must contain at least one entry.", "[my-recipe] stacks must contain at least one entry.">>,
       <<"my-recipe", "recipe must be an object.", "[my-recipe] recipe must be an object.">>,
       <<"my-recipe", "needs a", "[my-recipe] needs a">>,
       <<"my-recipe", "needs b", "[my-recipe] needs b">>,
       <<"my-recipe", "Validator returned an invalid result.", "[my-recipe] Validator returned an invalid result.">>,
       <<"notes-v2", "Validation failed.", "[notes-v2] Validation failed.">>,
       <<"notes-v2", "name is required.", "[notes-v2] name is required.">>,
       <<"notes-v2", "$schema must match soustack vNext.", "[notes-v2] $schema must match soustack vNext.">>,
       <<"notes-v2", "profile must be soustack/recipe-lite.", "[notes-v2] profile must be soustack/recipe-lite.">>,
       <<"notes-v2", "stacks must contain at least one entry.", "[notes-v2] stacks must contain at least one entry.">>,
       <<"notes-v2", "recipe must be an object.", "[notes-v2] recipe must be an object.">>,
       <<"notes-v2", "needs a", "[notes-v2] needs a">>,
       <<"notes-v2", "needs b", "[notes-v2] needs b">>,
       <<"notes-v2", "Validator returned an invalid result.", "[notes-v2] Validator returned an invalid result.">>,
       <<"simple-recipe", "name is required.", "[simple-recipe] name is required.">>,
       <<"simple-recipe", "$schema must match soustack vNext.", "[simple-recipe] $schema must match soustack vNext.">>,
       <<"simple-recipe", "profile must be soustack/recipe-lite.", "[simple-recipe] profile must be soustack/recipe-lite.">>,
       <<"simple-recipe", "stacks must contain at least one entry.", "[simple-recipe] stacks must contain at least one entry.">>,
       <<"simple-recipe", "recipe must be an object.", "[simple-recipe] recipe must be an object.">>,
       <<"simple-recipe", "needs a", "[simple-recipe] needs a">>,
       <<"simple-recipe", "needs b", "[simple-recipe] needs b">>,
       <<"simple-recipe", "Validator returned an invalid result.", "[simple-recipe] Validator returned an invalid result.">>,
       <<"a-recipe", "Validation failed.", "[a-recipe] Validation failed.">>,
       <<"a-recipe", "name is required.", "[a-recipe] name is required.">>,
       <<"a-recipe", "$schema must match soustack vNext.", "[a-recipe] $schema must match soustack vNext.">>,
       <<"a-recipe", "profile must be soustack/recipe-lite.", "[a-recipe] profile must be soustack/recipe-lite.">>,
       <<"a-recipe", "stacks must contain at least one entry.", "[a-recipe] stacks must contain at least one entry.">>,
       <<"a-recipe", "recipe must be an object.", "[a-recipe] recipe must be an object.">>,
       <<"a-recipe", "needs a", "[a-recipe] needs a">>,
       <<"a-recipe", "needs b", "[a-recipe] needs b">>,
       <<"a-recipe", "Validator returned an invalid result.", "[a-recipe] Validator returned an invalid result.">>,
       <<"b-recipe", "Validation failed.", "[b-recipe] Validation failed.">>,
       <<"b-recipe", "name is required.", "[b-recipe] name is required.">>,
       <<"b-recipe", "$schema must match soustack vNext.", "[b-recipe] $schema must match soustack vNext.">>,
       <<"b-recipe", "profile must be soustack/recipe-lite.", "[b-recipe] profile must be soustack/recipe-lite.">>,
       <<"b-recipe", "stacks must contain at least one entry.", "[b-recipe] stacks must contain at least one entry.">>,
       <<"b-recipe", "recipe must be an object.", "[b-recipe] recipe must be an object.">>,
       <<"b-recipe", "needs a", "[b-recipe] needs a">>,
       <<"b-recipe", "needs b", "[b-recipe] needs b">>,
       <<"b-recipe", "Validator returned an invalid result.", "[b-recipe] Validator returned an invalid result.">>,
       <<"recipe", "Validation failed.", "[recipe] Validation failed.">>,
       <<"recipe", "name is required.", "[recipe] name is required.">>,
       <<"recipe", "$schema must match soustack vNext.", "[recipe] $schema must match soustack vNext.">>,
       <<"recipe", "profile must be soustack/recipe-lite.", "[recipe] profile must be soustack/recipe-lite.">>,
       <<"recipe", "stacks must contain at least one entry.", "[recipe] stacks must contain at least one entry.">>,
       <<"recipe", "recipe must be an object.", "[recipe] recipe must be an object.">>,
       <<"recipe", "needs a", "[recipe] needs a">>,
       <<"recipe", "needs b", "[recipe] needs b">>,
       <<"recipe", "Validator returned an invalid result.", "[recipe] Validator returned an invalid result.">>,
       <<"pancakes", "Validation failed.", "[pancakes] Validation failed.">>,
       <<"pancakes", "name is required.", "[pancakes] name is required.">>,
       <<"pancakes", "$schema must match soustack vNext.", "[pancakes] $schema must match soustack vNext.">>,
       <<"pancakes", "profile must be soustack/recipe-lite.", "[pancakes] profile must be soustack/recipe-lite.">>,
       <<"pancakes", "stacks must contain at least one entry.", "[pancakes] stacks must contain at least one entry.">>,
       <<"pancakes", "recipe must be an object.", "[pancakes] recipe must be an object.">>,
       <<"pancakes", "needs a", "[pancakes] needs a">>,
       <<"pancakes", "needs b", "[pancakes] needs b">>,
       <<"pancakes", "Validator returned an invalid result.", "[pancakes] Validator returned an invalid result.">> >>

\* `[${slug}] ${message}`
Prefixed(slug, message) ==
    PrefixTable[CHOOSE i \in DOMAIN PrefixTable :
                    PrefixTable[i][1] = slug /\ PrefixTable[i][2] = message][3]

StrArr(strings) == Arr([i \in DOMAIN strings |-> Str(strings[i])])

\* left ?? right
Nullish(left, right) == IF left.t \in {"undefined", "null"} THEN right ELSE left

\* files are never to be emitted
NeverEmits(request) == Bool(FALSE)

\* input.options?.emitFiles ?? Boolean(input.outDir)
EffectiveEmitFiles(request) ==
    Nullish(Get(Get(request, "options"), "emitFiles"), Bool(Truthy(Get(request, "outDir"))))

\* input.options?.returnRecipes ?? true
EffectiveReturnRecipes(request) ==
    Nullish(Get(Get(request, "options"), "returnRecipes"), Bool(TRUE))

buildIngestRequest(input) ==
    LET options == Get(input, "options")
        r1 == Obj(<<Prop("inputPath", Get(input, "inputPath")),
                    Prop("emitFiles", EffectiveEmitFiles(input)),
                    Prop("returnRecipes", EffectiveReturnRecipes(input))>>)
        r2 == IF Truthy(Get(input, "outDir"))
              THEN Assign(r1, "outDir", Get(input, "outDir")) ELSE r1
        r3 == IF Truthy(options) /\ In("maxRecipes", options)
              THEN Assign(r2, "maxRecipes", Get(options, "maxRecipes")) ELSE r2
    IN IF Truthy(options) /\ In("strictValidation", options)
       THEN Assign(r3, "strictValidation", Get(options, "strictValidation")) ELSE r3

isEmitted(value) ==
    /\ isRecord(value)
    /\ Get(value, "outDir").t = "string"
    /\ Get(value, "indexPath").t = "string"
    /\ Get(value, "recipesDir").t = "string"
    /\ Get(value, "count").t = "number"

extractEmitted(value) ==
    IF isRecord(value) /\ isEmitted(Get(value, "emitted")) THEN Get(value, "emitted")
    ELSE IF isEmitted(value) THEN value
    ELSE Undefined

extractRecipes(value) ==
    IF ~isRecord(value) \/ ~IsArray(Get(value, "recipes")) THEN <<>>
    ELSE Get(value, "recipes").v

\* the callback of normalizeDocumentRecipes' map, for an entry that has properties
\* to read (reading entry.slug of null or undefined raises a TypeError)
NormalizeEntry(entry, inputPath) ==
    LET given == Get(entry, "name")
        slug == ensureSlug(Get(entry, "slug"), given, inputPath)
        name == IF given.t = "string" /\ Trim(given.v) # "" THEN given.v ELSE slug
        recipe == canonicalizeRecipe(Get(entry, "recipe"), Str(slug))
        spread == IF isRecord(entry) THEN FromEntries(Entries(entry)) ELSE EmptyObject
    IN Define(Define(Define(spread, "name", Str(name)), "slug", Str(slug)), "recipe", recipe)

\* a comparator that tells no two entries apart
ProviderOrder(left, right) == 0

\* left.slug.localeCompare(right.slug) || left.name.localeCompare(right.name)
CompareEntries(left, right) ==
    LET bySlug == LocaleCompare(Get(left, "slug").v, Get(right, "slug").v)
    IN IF bySlug # 0 THEN bySlug
       ELSE LocaleCompare(Get(left, "name").v, Get(right, "name").v)

RECURSIVE SortEntries(_)
\* recipes.sort(...): stable
SortEntries(entries) ==
    IF entries = <<>> THEN <<>>
    ELSE LET rest == SortEntries(SubSeq(entries, 1, Len(entries) - 1))
             x == entries[Len(entries)]
             n == Cardinality({i \in DOMAIN rest : CompareEntries(rest[i], x) <= 0})
         IN SubSeq(rest, 1, n) \o <<x>> \o SubSeq(rest, n + 1, Len(rest))

normalizeDocumentRecipes(value, request) ==
    LET entries == extractRecipes(value)
        inputPath == Get(request, "inputPath").v
    IN IF \E i \in DOMAIN entries : entries[i].t \in {"null", "undefined"}
       THEN Thrown(ErrorOf("Cannot read properties of null (reading 'slug')"))
       ELSE Returned(Arr(SortEntries([i \in DOMAIN entries |->
                                        NormalizeEntry(entries[i], inputPath)])))

\* a loop that pushes nothing
NoMessages(entry, validated) == <<>>

\* one turn of validateDocumentRecipes' loop: the errors pushed for a recipe
ValidationMessages(entry, validated) ==
    LET result == normalizeValidationResult(validated)
        messages == IF Len(result.errors) > 0 THEN result.errors ELSE <<"Validation failed.">>
    IN IF result.ok THEN <<>>
       ELSE [i \in DOMAIN messages |-> Prefixed(Get(entry, "slug").v, messages[i])]

\* an output that takes every result of the provider for a success
TakenForSuccess(result, request) ==
    [kind |-> "built",
     value |-> Obj(<<Prop("ok", Bool(TRUE)),
                     Prop("source", Obj(<<Prop("inputPath", Get(request, "inputPath"))>>)),
                     Prop("errors", StrArr(buildErrorList(result)))>>)]

\* normalizeIngestResult up to its call of validateDocumentRecipes: the early
\* failure, a TypeError out of the recipes' map, or the output built so far
IngestOutput(result, request) ==
    LET source == Obj(<<Prop("inputPath", Get(request, "inputPath"))>>)
        errors == buildErrorList(result)
        recipes == normalizeDocumentRecipes(result, request)
        o1 == Obj(<<Prop("ok", Bool(TRUE)), Prop("source", source),
                    Prop("errors", StrArr(errors))>>)
        o2 == IF Truthy(EffectiveReturnRecipes(request))
              THEN Assign(o1, "recipes", recipes.value) ELSE o1
        emitted == extractEmitted(result)
    IN IF isRecord(result) /\ Get(result, "ok") = Bool(FALSE)
       THEN [kind |-> "failed",
             value |-> Obj(<<Prop("ok", Bool(FALSE)), Prop("source", source),
                             Prop("errors", StrArr(IF Len(errors) > 0 THEN errors
                                                   ELSE <<"Ingest pipeline reported failure.">>))>>)]
       ELSE IF Truthy(EffectiveReturnRecipes(request)) /\ recipes.kind = "throw"
       THEN recipes
       ELSE [kind |-> "built",
             value |-> IF Truthy(EffectiveEmitFiles(request)) /\ Truthy(emitted)
                       THEN Assign(o2, "emitted", emitted) ELSE o2]

\* an end that leaves the output as it was built
KeepsOutput(built, validationErrors) == built

\* the end of normalizeIngestResult: validation errors turn ok false and are appended
FinishIngestOutput(built, validationErrors) ==
    IF Len(validationErrors) > 0
    THEN Assign(Assign(built, "ok", Bool(FALSE)), "errors",
                Arr(Get(built, "errors").v \o StrArr(validationErrors).v))
    ELSE built

-----------------------------------------------------------------------------
(* Tool handlers: server.ts 1044-1178.  A handler is an async function: it runs
   to its first await, and each time the awaited operation settles it runs on
   to the next await or to its return.  Its state is the await it is parked
   at (pc, await), its local variables (k) and, once settled, its result. *)

NoAwait == [op |-> "none"]
AwaitImport(which) == [op |-> "import", module |-> which]
AwaitCall(stage, fn, args) == [op |-> "call", stage |-> stage, fn |-> fn.v, args |-> args]
AwaitVersions == [op |-> "versions"]

Suspended(pc, await, k) == [pc |-> pc, await |-> await, k |-> k, result |-> Hangs]
Settled(outcome) ==
    [pc |-> "settled", await |-> NoAwait, k |-> [value |-> Undefined], result |-> outcome]

\* a catch block that drops the error it caught
NothingCaught(error) == Arr(<<>>)

\* the catch block shared by the provider-backed handlers: the tool's empty
\* shape with the caught error's message as its only error
CaughtErrors(error) == StrArr(<<ErrorMessage(error)>>)

supportedInputKinds == StrArr(<<"text", "rtf", "rtfd.zip", "rtfd-dir">>)

\* what readPackageVersion yields for the three packages: a version or null
Versions == {Str("0.1.0"), Null}
VersionOutcomes ==
    { Returned(Arr(<<mcp, ingest, soustack>>)) :
        mcp \in Versions, ingest \in Versions, soustack \in Versions }

pingStart == Settled(Returned(Obj(<<Prop("pong", Bool(TRUE))>>)))

metaStart == Suspended("versions", AwaitVersions, [value |-> Undefined])

metaResume(h, outcome) ==
    LET versions == outcome.value.v
    IN Settled(Returned(Obj(<<Prop("mcpVersion", Nullish(versions[1], Str("unknown"))),
                              Prop("soustackIngestVersion", versions[2]),
                              Prop("soustackVersion", versions[3]),
                              Prop("supportedInputKinds", supportedInputKinds),
                              Prop("canonicalSchema", Str(canonicalSchema)),
                              Prop("timestamp", Str("2026-01-01T00:00:00.000Z"))>>)))

\* ---- ingest.segment

SegmentEmpty(errors) ==
    Settled(Returned(Obj(<<Prop("chunks", Arr(<<>>)), Prop("errors", errors)>>)))

segmentStart(input) ==
    LET parsed == parseSegmentInput(input)
    IN IF ~Truthy(parsed.value) THEN SegmentEmpty(StrArr(parsed.errors))
       ELSE Suspended("import", AwaitImport("ingest"), [value |-> parsed.value])

\* runSegmentStage(segment, normalized, options) up to its first await
runSegmentStage(k, normalized) ==
    LET options == Get(k.value, "options")
        k2 == [value |-> k.value, normalize |-> k.normalize, segment |-> k.segment,
               normalized |-> normalized]
    IN IF options = Undefined
       THEN Suspended("segmentOnly", AwaitCall("segment", k.segment, <<normalized>>), k2)
       ELSE Suspended("segment", AwaitCall("segment", k.segment, <<normalized, options>>), k2)

segmentResume(h, outcome) ==
    LET text == Get(h.k.value, "text")
        threw == outcome.kind = "throw"
        caught == SegmentEmpty(CaughtErrors(outcome.error))
        done == Settled(Returned(Obj(<<Prop("chunks", extractSegmentChunks(outcome.value))>>)))
        normalize == resolveNormalizeStage(outcome.value)
        segment == resolveSegmentStage(outcome.value)
    IN CASE h.pc = "import" ->
              IF threw THEN caught
              ELSE IF normalize.kind = "throw" THEN SegmentEmpty(CaughtErrors(normalize.error))
              ELSE IF segment.kind = "throw" THEN SegmentEmpty(CaughtErrors(segment.error))
              ELSE Suspended("normalize", AwaitCall("normalize", normalize.value, <<text>>),
                             [value |-> h.k.value, normalize |-> normalize.value,
                              segment |-> segment.value])
         [] h.pc = "normalize" ->
              IF threw
              THEN Suspended("normalizeWrapped",
                             AwaitCall("normalize", h.k.normalize, <<Obj(<<Prop("text", text)>>)>>),
                             h.k)
              ELSE runSegmentStage(h.k, outcome.value)
         [] h.pc = "normalizeWrapped" ->
              IF threw THEN caught ELSE runSegmentStage(h.k, outcome.value)
         [] h.pc = "segmentOnly" -> IF threw THEN caught ELSE done
         [] h.pc = "segment" ->
              IF threw
              THEN Suspended("segmentWrapped",
                             AwaitCall("segment", h.k.segment,
                                       <<Obj(<<Prop("text", h.k.normalized),
                                               Prop("options", Get(h.k.value, "options"))>>)>>),
                             h.k)
              ELSE done
         [] h.pc = "segmentWrapped" -> IF threw THEN caught ELSE done

\* ---- ingest.extract

\* an extract handler that throws on invalid input instead of returning
ExtractRejects(errors) == Settled(Thrown(ErrorOf("Invalid input.")))

ExtractEmpty(errors) ==
    Settled(Returned(Obj(<<Prop("intermediate", Null), Prop("errors", errors)>>)))

\* a handler that goes on to the provider whatever its validator reported
extractUnchecked(input) == Suspended("import", AwaitImport("ingest"), [value |-> input])

extractStart(input) ==
    LET parsed == parseExtractInput(input)
    IN IF ~Truthy(parsed.value) THEN ExtractEmpty(StrArr(parsed.errors))
       ELSE Suspended("import", AwaitImport("ingest"), [value |-> parsed.value])

\* the handler once the text is normalized, up to its await of the extract stage
ExtractChunk(k, normalized) ==
    Suspended("extract",
              AwaitCall("extract", k.extract,
                        <<Get(k.value, "chunk"), resolveNormalizedLines(normalized)>>),
              k)

extractResume(h, outcome) ==
    LET text == Get(h.k.value, "text")
        threw == outcome.kind = "throw"
        caught == ExtractEmpty(CaughtErrors(outcome.error))
        normalize == resolveNormalizeStage(outcome.value)
        extract == resolveExtractStage(outcome.value)
    IN CASE h.pc = "import" ->
              IF threw THEN caught
              ELSE IF normalize.kind = "throw" THEN ExtractEmpty(CaughtErrors(normalize.error))
              ELSE IF extract.kind = "throw" THEN ExtractEmpty(CaughtErrors(extract.error))
              ELSE Suspended("normalize", AwaitCall("normalize", normalize.value, <<text>>),
                             [value |-> h.k.value, normalize |-> normalize.value,
                              extract |-> extract.value])
         [] h.pc = "normalize" ->
              IF threw
              THEN Suspended("normalizeWrapped",
                             AwaitCall("normalize", h.k.normalize, <<Obj(<<Prop("text", text)>>)>>),
                             h.k)
              ELSE ExtractChunk(h.k, outcome.value)
         [] h.pc = "normalizeWrapped" ->
              IF threw THEN caught ELSE ExtractChunk(h.k, outcome.value)
         [] h.pc = "extract" ->
              IF threw THEN caught
              ELSE Settled(Returned(Obj(<<Prop("intermediate", outcome.value)>>)))

\* ---- ingest.toSoustack

ToSoustackEmpty(errors) ==
    Settled(Returned(Obj(<<Prop("recipe", Null), Prop("errors", errors)>>)))

toSoustackStart(input) ==
    LET parsed == parseToSoustackInput(input)
    IN IF ~Truthy(parsed.value) THEN ToSoustackEmpty(StrArr(parsed.errors))
       ELSE Suspended("import", AwaitImport("ingest"), [value |-> parsed.value])

toSoustackResume(h, outcome) ==
    LET intermediate == Get(h.k.value, "intermediate")
        options == Get(h.k.value, "options")
        title == Get(intermediate, "title")
        threw == outcome.kind = "throw"
        caught == ToSoustackEmpty(CaughtErrors(outcome.error))
        toSoustack == resolveToSoustackStage(outcome.value)
        slug == ensureSlug(title, title, Nullish(Get(options, "sourcePath"), Str("")).v)
    IN CASE h.pc = "import" ->
              IF threw THEN caught
              ELSE IF toSoustack.kind = "throw" THEN ToSoustackEmpty(CaughtErrors(toSoustack.error))
              ELSE Suspended("toSoustack",
                             AwaitCall("toSoustack", toSoustack.value, <<intermediate, options>>),
                             h.k)
         [] h.pc = "toSoustack" ->
              IF threw THEN caught
              ELSE Settled(Returned(Obj(<<Prop("recipe",
                                               canonicalizeRecipe(outcome.value, Str(slug)))>>)))

\* ---- ingest.validate

ValidateEmpty(errors) ==
    Settled(Returned(Obj(<<Prop("ok", Bool(FALSE)), Prop("errors", errors)>>)))

validateStart(input) ==
    LET parsed == parseValidateInput(input)
    IN IF ~Truthy(parsed.value) THEN ValidateEmpty(StrArr(parsed.errors))
       ELSE Suspended("import", AwaitImport("soustack"), [value |-> parsed.value])

validateResume(h, outcome) ==
    LET threw == outcome.kind = "throw"
        caught == ValidateEmpty(CaughtErrors(outcome.error))
        validate == resolveSoustackValidator(outcome.value)
        result == normalizeValidationResult(outcome.value)
    IN CASE h.pc = "import" ->
              IF threw THEN caught
              ELSE IF validate.kind = "throw" THEN ValidateEmpty(CaughtErrors(validate.error))
              ELSE Suspended("validate",
                             AwaitCall("validate", validate.value, <<Get(h.k.value, "recipe")>>),
                             h.k)
         [] h.pc = "validate" ->
              IF threw THEN caught
              ELSE Settled(Returned(Obj(<<Prop("ok", Bool(result.ok)),
                                          Prop("errors", StrArr(result.errors))>>)))

\* ---- ingest.document

DocumentFailed(source, errors) ==
    Settled(Returned(Obj(<<Prop("ok", Bool(FALSE)), Prop("source", source),
                           Prop("errors", errors)>>)))

documentStart(input) ==
    LET parsed == parseIngestInput(input)
    IN IF ~Truthy(parsed.value) THEN DocumentFailed(parsed.source, StrArr(parsed.errors))
       ELSE Suspended("importIngest", AwaitImport("ingest"),
                      [value |-> parsed.value, source |-> parsed.source])

\* validateDocumentRecipes at the recipe of this index: its await of the
\* validator, or past the last recipe the end of normalizeIngestResult
ValidateFrom(k, built, index, validationErrors) ==
    LET recipes == Get(built, "recipes").v
    IN IF index > Len(recipes)
       THEN Settled(Returned(FinishIngestOutput(built, validationErrors)))
       ELSE Suspended("validate",
                      AwaitCall("validate", k.validator, <<Get(recipes[index], "recipe")>>),
                      [value |-> k.value, source |-> k.source, handler |-> k.handler,
                       validator |-> k.validator, built |-> built, index |-> index,
                       validationErrors |-> validationErrors])

\* return await normalizeIngestResult(result, parsed.value, validator): the
\* handler once the output is built, up to the first await of the validator
\* or to the return
AfterBuilt(k, built) ==
    IF built.kind = "failed" THEN Settled(Returned(built.value))
    ELSE IF built.kind = "throw" THEN DocumentFailed(k.source, CaughtErrors(built.error))
    ELSE IF Truthy(Get(built.value, "recipes")) THEN ValidateFrom(k, built.value, 1, <<>>)
    ELSE Settled(Returned(built.value))

documentResume(h, outcome) ==
    LET threw == outcome.kind = "throw"
        caught == DocumentFailed(h.k.source, CaughtErrors(outcome.error))
        handler == resolveIngestHandler(outcome.value)
        validator == resolveSoustackValidator(outcome.value)
    IN CASE h.pc = "importIngest" ->
              IF threw THEN caught
              ELSE IF handler.kind = "throw"
              THEN DocumentFailed(h.k.source, CaughtErrors(handler.error))
              ELSE Suspended("importSoustack", AwaitImport("soustack"),
                             [value |-> h.k.value, source |-> h.k.source,
                              handler |-> handler.value])
         [] h.pc = "importSoustack" ->
              IF threw THEN caught
              ELSE IF validator.kind = "throw"
              THEN DocumentFailed(h.k.source, CaughtErrors(validator.error))
              ELSE Suspended("ingest",
                             AwaitCall("ingest", h.k.handler, <<buildIngestRequest(h.k.value)>>),
                             [value |-> h.k.value, source |-> h.k.source,
                              handler |-> h.k.handler, validator |-> validator.value])
         [] h.pc = "ingest" ->
              IF threw THEN caught
              ELSE AfterBuilt(h.k, IngestOutput(outcome.value, h.k.value))
         [] h.pc = "validate" ->
              IF threw THEN caught
              ELSE ValidateFrom(h.k, h.k.built, h.k.index + 1,
                                h.k.validationErrors
                                  \o ValidationMessages(Get(h.k.built, "recipes").v[h.k.index],
                                                        outcome.value))

\* ---- the tools table and what tools[tool] finds in it

ToolNames == { "ping", "ingest.meta", "ingest.document", "ingest.segment",
               "ingest.extract", "ingest.toSoustack", "ingest.validate" }

\* tools[tool]: an own property of the table, or what the table inherits from
\* Object.prototype under that name
ToolsLookup(tool) ==
    CASE tool \in ToolNames -> Fn(tool)
      [] tool = "constructor" -> Fn("Object")
      [] tool = "toString" -> Fn("Object.prototype.toString")
      [] tool = "hasOwnProperty" -> Fn("Object.prototype.hasOwnProperty")
      [] tool = "__proto__" -> EmptyObject
      [] OTHER -> Undefined

\* handler(toolInput): where the call leaves the handler.  A call that throws
\* before returning a promise is settled at once.
Invoke(handler, input) ==
    CASE handler.t # "function" -> Settled(Thrown(ErrorOf("handler is not a function")))
      [] handler.v = "ping" -> pingStart
      [] handler.v = "ingest.meta" -> metaStart
      [] handler.v = "ingest.document" -> documentStart(input)
      [] handler.v = "ingest.segment" -> segmentStart(input)
      [] handler.v = "ingest.extract" -> extractStart(input)
      [] handler.v = "ingest.toSoustack" -> toSoustackStart(input)
      [] handler.v = "ingest.validate" -> validateStart(input)
      [] handler.v = "Object" -> Settled(Returned(input))
      [] handler.v = "Object.prototype.toString" -> Settled(Returned(Str("[object Undefined]")))
      [] handler.v = "Object.prototype.hasOwnProperty" ->
            Settled(Thrown(ErrorOf("Cannot convert undefined or null to object")))

\* whether handler(toolInput) throws instead of returning a value or a promise
ThrowsAtCall(handler) ==
    handler.t # "function" \/ handler.v = "Object.prototype.hasOwnProperty"

\* the handler of this tool resumed with the outcome of its await
Resume(tool, h, outcome) ==
    CASE tool = "ingest.meta" -> metaResume(h, outcome)
      [] tool = "ingest.document" -> documentResume(h, outcome)
      [] tool = "ingest.segment" -> segmentResume(h, outcome)
      [] tool = "ingest.extract" -> extractResume(h, outcome)
      [] tool = "ingest.toSoustack" -> toSoustackResume(h, outcome)
      [] tool = "ingest.validate" -> validateResume(h, outcome)

-----------------------------------------------------------------------------
(* The protocol: server.ts 1180-1275 *)

\* whether JSON.stringify(value) completes: it throws a TypeError on a BigInt
RECURSIVE Serializable(_)
Serializable(value) ==
    CASE value.t = "bigint" -> FALSE
      [] value.t = "array" -> \A i \in DOMAIN value.v : Serializable(value.v[i])
      [] value.t = "object" -> \A i \in DOMAIN value.v : Serializable(value.v[i].v)
      [] OTHER -> TRUE

\* the document JSON.stringify(value) writes: a property whose value is
\* undefined or a function is left out, such an array element becomes null,
\* and a number that is not finite becomes null
RECURSIVE JSONValue(_)
JSONValue(value) ==
    CASE value.t = "object" ->
            LET kept == SelectSeq(value.v, LAMBDA p : p.v.t \notin {"undefined", "function"})
            IN Obj([i \in DOMAIN kept |-> Prop(kept[i].k, JSONValue(kept[i].v))])
      [] value.t = "array" -> Arr([i \in DOMAIN value.v |-> JSONValue(value.v[i])])
      [] value.t \in {"undefined", "function"} -> Null
      [] value.t = "number" -> IF IsFinite(value) THEN value ELSE Null
      [] value.t = "error" -> EmptyObject
      [] OTHER -> value

\* `Tool "${tool}" is not available.`
NotAvailableTable ==
    << [tool |-> "nope", message |-> "Tool \"nope\" is not available."],
       [tool |-> "", message |-> "Tool \"\" is not available."],
       [tool |-> "Ping", message |-> "Tool \"Ping\" is not available."],
       [tool |-> "constructor", message |-> "Tool \"constructor\" is not available."],
       [tool |-> "toString", message |-> "Tool \"toString\" is not available."],
       [tool |-> "hasOwnProperty", message |-> "Tool \"hasOwnProperty\" is not available."],
       [tool |-> "__proto__", message |-> "Tool \"__proto__\" is not available."] >>
NotAvailable(tool) ==
    NotAvailableTable[CHOOSE i \in DOMAIN NotAvailableTable :
                        NotAvailableTable[i].tool = tool].message

ErrorDetails(code, message) == Obj(<<Prop("code", Str(code)), Prop("message", Str(message))>>)

\* error details that leave the underlying message out
DetailsDropped(code, message, error) == ErrorDetails(code, message)

ErrorDetailsWith(code, message, error) ==
    Obj(<<Prop("code", Str(code)), Prop("message", Str(message)),
          Prop("details", Obj(<<Prop("error", Str(ErrorMessage(error)))>>))>>)

\* a failure that never echoes the request's id
buildErrorWithoutId(id, error) ==
    Obj(<<Prop("id", Null), Prop("ok", Bool(FALSE)), Prop("error", error)>>)

buildError(id, error) == Obj(<<Prop("id", id), Prop("ok", Bool(FALSE)), Prop("error", error)>>)
buildSuccess(id, result) == Obj(<<Prop("id", id), Prop("ok", Bool(TRUE)), Prop("output", result)>>)

\* a shape check that does not look at the input field
isRequestWithoutInput(value) ==
    /\ Truthy(value) /\ TypeOf(value) = "object"
    /\ TypeOf(Get(value, "id")) = "string"
    /\ TypeOf(Get(value, "tool")) = "string"

isRequest(value) ==
    IF ~Truthy(value) \/ TypeOf(value) # "object" THEN FALSE
    ELSE /\ TypeOf(Get(value, "id")) = "string"
         /\ TypeOf(Get(value, "tool")) = "string"
         /\ TypeOf(Get(value, "input")) = "object"
         /\ Get(value, "input") # Null

\* a write that leaves the newline out
WrittenUnterminated(line, response) ==
    [line |-> line, json |-> JSONValue(response), eol |-> ""]

\* what output.write receives for this response: its JSON text and a newline
Written(line, response) == [line |-> line, json |-> JSONValue(response), eol |-> "\n"]

SerializeError == ErrorOf("Do not know how to serialize a BigInt")

\* a tool_error that reports a different code
ToolErrorMiscoded(id, error) ==
    buildError(id, ErrorDetailsWith("internal_error", "Tool execution failed.", error))

ToolError(id, error) ==
    buildError(id, ErrorDetailsWith("tool_error", "Tool execution failed.", error))

\* the callback after `await handler(toolInput)` has settled: the success
\* response, or the catch block when the handler or JSON.stringify threw
ResponseTo(id, result) ==
    IF result.kind = "throw" THEN ToolError(id, result.error)
    ELSE IF ~Serializable(result.value) THEN ToolError(id, SerializeError)
    ELSE buildSuccess(id, result.value)

-----------------------------------------------------------------------------
(* The input stream *)

\* the lines of the model, as the text read from the input stream
Line ==
    [ empty |->
        "",
      spaces |->
        "  ",
      malformed |->
        "{bad",
      number |->
        "42",
      null |->
        "null",
      array |->
        "[]",
      noInput |->
        "{\"id\":\"a\",\"tool\":\"ping\"}",
      numericId |->
        "{\"id\":7,\"tool\":\"ping\",\"input\":{}}",
      nullInput |->
        "{\"id\":\"a\",\"tool\":\"ping\",\"input\":null}",
      numericTool |->
        "{\"id\":\"a\",\"tool\":7,\"input\":{}}",
      ping |->
        "{\"id\":\"p\",\"tool\":\"ping\",\"input\":{}}",
      unknownTool |->
        "{\"id\":\"u\",\"tool\":\"nope\",\"input\":{}}",
      constructor |->
        "{\"id\":\"c\",\"tool\":\"constructor\",\"input\":{\"text\":\"pancakes\"}}",
      toString |->
        "{\"id\":\"s\",\"tool\":\"toString\",\"input\":{}}",
      proto |->
        "{\"id\":\"o\",\"tool\":\"__proto__\",\"input\":{}}",
      hasOwnProperty |->
        "{\"id\":\"h\",\"tool\":\"hasOwnProperty\",\"input\":{}}",
      meta |->
        "{\"id\":\"m\",\"tool\":\"ingest.meta\",\"input\":{}}",
      validateName |->
        "{\"id\":\"v\",\"tool\":\"ingest.validate\",\"input\":{\"recipe\":{\"name\":\"Pancakes\"}}}",
      segment |->
        "{\"id\":\"s1\",\"tool\":\"ingest.segment\",\"input\":{\"text\":\" pancakes\"}}",
      segmentOptions |->
        "{\"id\":\"s2\",\"tool\":\"ingest.segment\",\"input\":{\"text\":\"pancakes\",\"options\":{\"maxChunks\":2}}}",
      segmentEmpty |->
        "{\"id\":\"s3\",\"tool\":\"ingest.segment\",\"input\":{}}",
      segmentBad |->
        "{\"id\":\"s4\",\"tool\":\"ingest.segment\",\"input\":{\"text\":7,\"options\":\"x\"}}",
      extract |->
        "{\"id\":\"e1\",\"tool\":\"ingest.extract\",\"input\":{\"text\":\"Pancakes\\nFlour\",\"chunk\":{\"startLine\":1,\"endLine\":1,\"titleGuess\":\"Pancakes\"}}}",
      extractOrder |->
        "{\"id\":\"e2\",\"tool\":\"ingest.extract\",\"input\":{\"text\":\"pancakes\",\"chunk\":{\"startLine\":5,\"endLine\":2}}}",
      extractNoChunk |->
        "{\"id\":\"e3\",\"tool\":\"ingest.extract\",\"input\":{\"text\":\"pancakes\"}}",
      toSoustack |->
        "{\"id\":\"t1\",\"tool\":\"ingest.toSoustack\",\"input\":{\"intermediate\":{\"title\":\"Pancakes\",\"ingredients\":[\"Flour\"],\"instructions\":[]},\"options\":{\"sourcePath\":\"/a/b/Pancakes.txt\"}}}",
      toSoustackBare |->
        "{\"id\":\"t2\",\"tool\":\"ingest.toSoustack\",\"input\":{\"intermediate\":{\"title\":\"My Recipe!\",\"ingredients\":[],\"instructions\":[]}}}",
      toSoustackNull |->
        "{\"id\":\"t3\",\"tool\":\"ingest.toSoustack\",\"input\":{\"intermediate\":null}}",
      toSoustackBad |->
        "{\"id\":\"t4\",\"tool\":\"ingest.toSoustack\",\"input\":{\"intermediate\":{\"title\":\" \",\"ingredients\":\"x\",\"instructions\":[]}}}",
      validateFull |->
        "{\"id\":\"v2\",\"tool\":\"ingest.validate\",\"input\":{\"recipe\":{\"$schema\":\"https://soustack.dev/schema/recipe-vNext.json\",\"profile\":\"soustack/recipe-lite\",\"stacks\":{\"pancakes\":true},\"name\":\"Pancakes\"}}}",
      validateSimple |->
        "{\"id\":\"v5\",\"tool\":\"ingest.validate\",\"input\":{\"recipe\":{\"$schema\":\"https://spec.soustack.org/soustack.schema.json\",\"profile\":\"soustack/recipe-lite\",\"stacks\":{\"simple-recipe\":true},\"name\":\"Simple recipe\"}}}",
      validateA |->
        "{\"id\":\"v6\",\"tool\":\"ingest.validate\",\"input\":{\"recipe\":{\"$schema\":\"https://spec.soustack.org/soustack.schema.json\",\"profile\":\"soustack/recipe-lite\",\"stacks\":{\"a-recipe\":true},\"z\":1}}}",
      validateEmpty |->
        "{\"id\":\"v3\",\"tool\":\"ingest.validate\",\"input\":{}}",
      validateArray |->
        "{\"id\":\"v4\",\"tool\":\"ingest.validate\",\"input\":{\"recipe\":[]}}",
      document |->
        "{\"id\":\"d1\",\"tool\":\"ingest.document\",\"input\":{\"inputPath\":\"/a/b/Pancakes.txt\"}}",
      documentOutDir |->
        "{\"id\":\"d6\",\"tool\":\"ingest.document\",\"input\":{\"inputPath\":\"/a/b/Pancakes.txt\",\"outDir\":\"/out\"}}",
      documentNoEmit |->
        "{\"id\":\"d7\",\"tool\":\"ingest.document\",\"input\":{\"inputPath\":\"/a/b/Pancakes.txt\",\"outDir\":\"/out\",\"options\":{\"emitFiles\":false,\"returnRecipes\":true,\"maxRecipes\":null}}}",
      documentNoDir |->
        "{\"id\":\"d8\",\"tool\":\"ingest.document\",\"input\":{\"inputPath\":\"/a/b/Pancakes.txt\",\"outDir\":\"\",\"options\":{}}}",
      documentOptions |->
        "{\"id\":\"d2\",\"tool\":\"ingest.document\",\"input\":{\"inputPath\":\"/a/b/Pancakes.txt\",\"options\":{\"emitFiles\":true,\"returnRecipes\":false}}}",
      documentNotes |->
        "{\"id\":\"d5\",\"tool\":\"ingest.document\",\"input\":{\"inputPath\":\"notes.v2.md\"}}",
      documentEmpty |->
        "{\"id\":\"d3\",\"tool\":\"ingest.document\",\"input\":{}}",
      documentBad |->
        "{\"id\":\"d4\",\"tool\":\"ingest.document\",\"input\":{\"inputPath\":\"\",\"outDir\":5}}" ]

\* JSON.parse(text) for the lines of the model that are not blank: the value,
\* or the SyntaxError
JSONTable ==
    << [s |-> Line.malformed,
         parse |-> Thrown(ErrorOf("Expected property name or '}' in JSON at position 1"))],
       [s |-> Line.number,
         parse |-> Returned(Num(42))],
       [s |-> Line.null,
         parse |-> Returned(Null)],
       [s |-> Line.array,
         parse |-> Returned(Arr(<<>>))],
       [s |-> Line.noInput,
         parse |-> Returned(Obj(<<Prop("id", Str("a")), Prop("tool", Str("ping"))>>))],
       [s |-> Line.numericId,
         parse |-> Returned(Obj(<<Prop("id", Num(7)), Prop("tool", Str("ping")), Prop("input", Obj(<<>>))>>))],
       [s |-> Line.nullInput,
         parse |-> Returned(Obj(<<Prop("id", Str("a")), Prop("tool", Str("ping")), Prop("input", Null)>>))],
       [s |-> Line.numericTool,
         parse |-> Returned(Obj(<<Prop("id", Str("a")), Prop("tool", Num(7)), Prop("input", Obj(<<>>))>>))],
       [s |-> Line.ping,
         parse |-> Returned(Obj(<<Prop("id", Str("p")), Prop("tool", Str("ping")), Prop("input", Obj(<<>>))>>))],
       [s |-> Line.unknownTool,
         parse |-> Returned(Obj(<<Prop("id", Str("u")), Prop("tool", Str("nope")), Prop("input", Obj(<<>>))>>))],
       [s |-> Line.constructor,
         parse |-> Returned(Obj(<<Prop("id", Str("c")), Prop("tool", Str("constructor")), Prop("input", Obj(<<Prop("text", Str("pancakes"))>>))>>))],
       [s |-> Line.toString,
         parse |-> Returned(Obj(<<Prop("id", Str("s")), Prop("tool", Str("toString")), Prop("input", Obj(<<>>))>>))],
       [s |-> Line.proto,
         parse |-> Returned(Obj(<<Prop("id", Str("o")), Prop("tool", Str("__proto__")), Prop("input", Obj(<<>>))>>))],
       [s |-> Line.hasOwnProperty,
         parse |-> Returned(Obj(<<Prop("id", Str("h")), Prop("tool", Str("hasOwnProperty")), Prop("input", Obj(<<>>))>>))],
       [s |-> Line.meta,
         parse |-> Returned(Obj(<<Prop("id", Str("m")), Prop("tool", Str("ingest.meta")), Prop("input", Obj(<<>>))>>))],
       [s |-> Line.validateName,
         parse |-> Returned(Obj(<<Prop("id", Str("v")), Prop("tool", Str("ingest.validate")), Prop("input", Obj(<<Prop("recipe", Obj(<<Prop("name", Str("Pancakes"))>>))>>))>>))],
       [s |-> Line.segment,
         parse |-> Returned(Obj(<<Prop("id", Str("s1")), Prop("tool", Str("ingest.segment")), Prop("input", Obj(<<Prop("text", Str(" pancakes"))>>))>>))],
       [s |-> Line.segmentOptions,
         parse |-> Returned(Obj(<<Prop("id", Str("s2")), Prop("tool", Str("ingest.segment")), Prop("input", Obj(<<Prop("text", Str("pancakes")), Prop("options", Obj(<<Prop("maxChunks", Num(2))>>))>>))>>))],
       [s |-> Line.segmentEmpty,
         parse |-> Returned(Obj(<<Prop("id", Str("s3")), Prop("tool", Str("ingest.segment")), Prop("input", Obj(<<>>))>>))],
       [s |-> Line.segmentBad,
         parse |-> Returned(Obj(<<Prop("id", Str("s4")), Prop("tool", Str("ingest.segment")), Prop("input", Obj(<<Prop("text", Num(7)), Prop("options", Str("x"))>>))>>))],
       [s |-> Line.extract,
         parse |-> Returned(Obj(<<Prop("id", Str("e1")), Prop("tool", Str("ingest.extract")), Prop("input", Obj(<<Prop("text", Str("Pancakes\nFlour")), Prop("chunk", Obj(<<Prop("startLine", Num(1)), Prop("endLine", Num(1)), Prop("titleGuess", Str("Pancakes"))>>))>>))>>))],
       [s |-> Line.extractOrder,
         parse |-> Returned(Obj(<<Prop("id", Str("e2")), Prop("tool", Str("ingest.extract")), Prop("input", Obj(<<Prop("text", Str("pancakes")), Prop("chunk", Obj(<<Prop("startLine", Num(5)), Prop("endLine", Num(2))>>))>>))>>))],
       [s |-> Line.extractNoChunk,
         parse |-> Returned(Obj(<<Prop("id", Str("e3")), Prop("tool", Str("ingest.extract")), Prop("input", Obj(<<Prop("text", Str("pancakes"))>>))>>))],
       [s |-> Line.toSoustack,
         parse |-> Returned(Obj(<<Prop("id", Str("t1")), Prop("tool", Str("ingest.toSoustack")), Prop("input", Obj(<<Prop("intermediate", Obj(<<Prop("title", Str("Pancakes")), Prop("ingredients", Arr(<<Str("Flour")>>)), Prop("instructions", Arr(<<>>))>>)), Prop("options", Obj(<<Prop("sourcePath", Str("/a/b/Pancakes.txt"))>>))>>))>>))],
       [s |-> Line.toSoustackBare,
         parse |-> Returned(Obj(<<Prop("id", Str("t2")), Prop("tool", Str("ingest.toSoustack")), Prop("input", Obj(<<Prop("intermediate", Obj(<<Prop("title", Str("My Recipe!")), Prop("ingredients", Arr(<<>>)), Prop("instructions", Arr(<<>>))>>))>>))>>))],
       [s |-> Line.toSoustackNull,
         parse |-> Returned(Obj(<<Prop("id", Str("t3")), Prop("tool", Str("ingest.toSoustack")), Prop("input", Obj(<<Prop("intermediate", Null)>>))>>))],
       [s |-> Line.toSoustackBad,
         parse |-> Returned(Obj(<<Prop("id", Str("t4")), Prop("tool", Str("ingest.toSoustack")), Prop("input", Obj(<<Prop("intermediate", Obj(<<Prop("title", Str(" ")), Prop("ingredients", Str("x")), Prop("instructions", Arr(<<>>))>>))>>))>>))],
       [s |-> Line.validateFull,
         parse |-> Returned(Obj(<<Prop("id", Str("v2")), Prop("tool", Str("ingest.validate")), Prop("input", Obj(<<Prop("recipe", Obj(<<Prop("$schema", Str("https://soustack.dev/schema/recipe-vNext.json")), Prop("profile", Str("soustack/recipe-lite")), Prop("stacks", Obj(<<Prop("pancakes", Bool(TRUE))>>)), Prop("name", Str("Pancakes"))>>))>>))>>))],
       [s |-> Line.validateSimple,
         parse |-> Returned(Obj(<<Prop("id", Str("v5")), Prop("tool", Str("ingest.validate")), Prop("input", Obj(<<Prop("recipe", Obj(<<Prop("$schema", Str("https://spec.soustack.org/soustack.schema.json")), Prop("profile", Str("soustack/recipe-lite")), Prop("stacks", Obj(<<Prop("simple-recipe", Bool(TRUE))>>)), Prop("name", Str("Simple recipe"))>>))>>))>>))],
       [s |-> Line.validateA,
         parse |-> Returned(Obj(<<Prop("id", Str("v6")), Prop("tool", Str("ingest.validate")), Prop("input", Obj(<<Prop("recipe", Obj(<<Prop("$schema", Str("https://spec.soustack.org/soustack.schema.json")), Prop("profile", Str("soustack/recipe-lite")), Prop("stacks", Obj(<<Prop("a-recipe", Bool(TRUE))>>)), Prop("z", Num(1))>>))>>))>>))],
       [s |-> Line.validateEmpty,
         parse |-> Returned(Obj(<<Prop("id", Str("v3")), Prop("tool", Str("ingest.validate")), Prop("input", Obj(<<>>))>>))],
       [s |-> Line.validateArray,
         parse |-> Returned(Obj(<<Prop("id", Str("v4")), Prop("tool", Str("ingest.validate")), Prop("input", Obj(<<Prop("recipe", Arr(<<>>))>>))>>))],
       [s |-> Line.document,
         parse |-> Returned(Obj(<<Prop("id", Str("d1")), Prop("tool", Str("ingest.document")), Prop("input", Obj(<<Prop("inputPath", Str("/a/b/Pancakes.txt"))>>))>>))],
       [s |-> Line.documentOutDir,
         parse |-> Returned(Obj(<<Prop("id", Str("d6")), Prop("tool", Str("ingest.document")), Prop("input", Obj(<<Prop("inputPath", Str("/a/b/Pancakes.txt")), Prop("outDir", Str("/out"))>>))>>))],
       [s |-> Line.documentNoEmit,
         parse |-> Returned(Obj(<<Prop("id", Str("d7")), Prop("tool", Str("ingest.document")), Prop("input", Obj(<<Prop("inputPath", Str("/a/b/Pancakes.txt")), Prop("outDir", Str("/out")), Prop("options", Obj(<<Prop("emitFiles", Bool(FALSE)), Prop("returnRecipes", Bool(TRUE)), Prop("maxRecipes", Null)>>))>>))>>))],
       [s |-> Line.documentNoDir,
         parse |-> Returned(Obj(<<Prop("id", Str("d8")), Prop("tool", Str("ingest.document")), Prop("input", Obj(<<Prop("inputPath", Str("/a/b/Pancakes.txt")), Prop("outDir", Str("")), Prop("options", Obj(<<>>))>>))>>))],
       [s |-> Line.documentOptions,
         parse |-> Returned(Obj(<<Prop("id", Str("d2")), Prop("tool", Str("ingest.document")), Prop("input", Obj(<<Prop("inputPath", Str("/a/b/Pancakes.txt")), Prop("options", Obj(<<Prop("emitFiles", Bool(TRUE)), Prop("returnRecipes", Bool(FALSE))>>))>>))>>))],
       [s |-> Line.documentNotes,
         parse |-> Returned(Obj(<<Prop("id", Str("d5")), Prop("tool", Str("ingest.document")), Prop("input", Obj(<<Prop("inputPath", Str("notes.v2.md"))>>))>>))],
       [s |-> Line.documentEmpty,
         parse |-> Returned(Obj(<<Prop("id", Str("d3")), Prop("tool", Str("ingest.document")), Prop("input", Obj(<<>>))>>))],
       [s |-> Line.documentBad,
         parse |-> Returned(Obj(<<Prop("id", Str("d4")), Prop("tool", Str("ingest.document")), Prop("input", Obj(<<Prop("inputPath", Str("")), Prop("outDir", Num(5))>>))>>))] >>
JSONParse(text) == JSONTable[CHOOSE i \in DOMAIN JSONTable : JSONTable[i].s = text].parse

ProtocolLines ==
    { Line.empty, Line.spaces, Line.malformed, Line.number, Line.null, Line.array,
      Line.noInput, Line.numericId, Line.nullInput, Line.numericTool, Line.ping,
      Line.unknownTool, Line.constructor, Line.toString, Line.proto, Line.hasOwnProperty,
      Line.meta, Line.validateName }
ToolLines ==
    { Line.segment, Line.segmentOptions, Line.segmentEmpty, Line.segmentBad,
      Line.extract, Line.extractOrder, Line.extractNoChunk, Line.toSoustack,
      Line.toSoustackBare, Line.toSoustackNull, Line.toSoustackBad, Line.validateFull,
      Line.validateEmpty, Line.validateArray, Line.document, Line.documentOptions,
      Line.documentNotes, Line.documentOutDir, Line.documentNoEmit, Line.documentNoDir,
      Line.documentEmpty, Line.documentBad, Line.ping, Line.meta, Line.validateName,
      Line.constructor, Line.proto }

-----------------------------------------------------------------------------
(* The server: startServer, server.ts 1210-1275.  Each 'line' event runs the
   async callback to its first await; what follows an await runs later, in
   any order relative to other lines. *)

NotStarted ==
    [pc |-> "none", await |-> NoAwait, k |-> [value |-> Undefined], result |-> Hangs]

Callback(id, tool, pc, invoked, h, responses) ==
    [id |-> id, tool |-> tool, pc |-> pc, invoked |-> invoked, h |-> h,
     responses |-> responses]

\* const result = await handler(toolInput): a handler that throws when called
\* is answered in the same turn, any other is awaited
Dispatch(id, tool, handler, started) ==
    IF ThrowsAtCall(handler)
    THEN Callback(id, tool, "answered", TRUE, started, <<ResponseTo(id, started.result)>>)
    ELSE Callback(id, tool, "running", TRUE, started, <<>>)

\* the callback from the 'line' event to its first await or its return,
\* given trimmed = line.trim() and the outcome of JSON.parse(trimmed)
OnLine(trimmed, parsed) ==
    LET id == Get(parsed.value, "id")
        tool == Get(parsed.value, "tool")
        toolInput == Get(parsed.value, "input")
        handler == ToolsLookup(tool.v)
    IN IF trimmed = "" THEN Callback(Null, "", "ignored", FALSE, NotStarted, <<>>)
       ELSE IF parsed.kind = "throw"
       THEN Callback(Null, "", "answered", FALSE, NotStarted,
                     <<buildError(Null, ErrorDetailsWith("invalid_json",
                                                         "Request was not valid JSON.",
                                                         parsed.error))>>)
       ELSE IF ~isRequest(parsed.value)
       THEN Callback(Null, "", "answered", FALSE, NotStarted,
                     <<buildError(Null, ErrorDetails("invalid_request",
                                                     "Request did not match the expected shape."))>>)
       ELSE IF ~Truthy(handler)
       THEN Callback(id, tool.v, "answered", FALSE, NotStarted,
                     <<buildError(id, ErrorDetails("tool_not_found", NotAvailable(tool.v)))>>)
       ELSE Dispatch(id, tool.v, handler, Invoke(handler, toolInput))

\* the provider interaction a handler has just begun, for the log
Interactions(index, h) ==
    IF h.await.op \in {"import", "call"}
    THEN <<[line |-> index, await |-> h.await, outcome |-> Hangs]>>
    ELSE <<>>

\* the log once the interaction the handler of this line waited for has
\* settled: its entry, the last one of the line, takes the outcome
LogOutcome(log, index, h, outcome) ==
    IF h.await.op \in {"import", "call"}
    THEN LET last == CHOOSE n \in DOMAIN log :
                        /\ log[n].line = index
                        /\ \A m \in DOMAIN log : log[m].line = index => m <= n
         IN [log EXCEPT ![last].outcome = outcome]
    ELSE log

\* how the operation a handler awaits may settle
AwaitOutcomes(await) ==
    CASE await.op = "import" ->
            { ImportOutcome(IF await.module = "ingest" THEN ingestModule ELSE soustackModule) }
      [] await.op = "call" -> ProviderCall(await.fn, await.args)
      [] await.op = "versions" -> VersionOutcomes
      [] OTHER -> {}

ReadLine ==
    /\ stdin # <<>>
    /\ \E trimmed \in { Trim(Head(stdin)) } :
       \E parsed \in { IF trimmed = "" THEN Returned(Undefined) ELSE JSONParse(trimmed) } :
       \E callback \in { OnLine(trimmed, parsed) } :
          /\ requests' = Append(requests,
                                [line |-> Head(stdin), id |-> callback.id,
                                 tool |-> callback.tool, pc |-> callback.pc,
                                 invoked |-> callback.invoked, h |-> callback.h])
          /\ output' = output \o [j \in DOMAIN callback.responses |->
                                    Written(Len(requests) + 1, callback.responses[j])]
          /\ calls' = calls \o Interactions(Len(requests) + 1, callback.h)
    /\ stdin' = Tail(stdin)
    /\ UNCHANGED <<ingestModule, soustackModule, canon, applied>>

\* the operation the handler of request i awaits settles and the handler runs
\* on to its next await or to its return; an operation that hangs never does
Settle(i) ==
    /\ requests[i].pc = "running"
    /\ requests[i].h.pc # "settled"
    /\ \E outcome \in AwaitOutcomes(requests[i].h.await) \ {Hangs} :
          \E h \in { Resume(requests[i].tool, requests[i].h, outcome) } :
             /\ requests' = [requests EXCEPT ![i].h = h]
             /\ calls' = LogOutcome(calls, i, requests[i].h, outcome) \o Interactions(i, h)
    /\ UNCHANGED <<stdin, output, ingestModule, soustackModule, canon, applied>>

\* a server that answers in input order: the response of request i waits for
\* every earlier handler
WriteInOrder(i) ==
    /\ requests[i].pc = "running"
    /\ requests[i].h.pc = "settled"
    /\ \A j \in 1..(i - 1) : requests[j].pc # "running"
    /\ requests' = [requests EXCEPT ![i].pc = "answered"]
    /\ output' = Append(output, Written(i, ResponseTo(requests[i].id, requests[i].h.result)))
    /\ UNCHANGED <<stdin, calls, ingestModule, soustackModule, canon, applied>>

\* the callback of request i after `await handler(toolInput)`: one response
WriteResult(i) ==
    /\ requests[i].pc = "running"
    /\ requests[i].h.pc = "settled"
    /\ requests' = [requests EXCEPT ![i].pc = "answered"]
    /\ output' = Append(output, Written(i, ResponseTo(requests[i].id, requests[i].h.result)))
    /\ UNCHANGED <<stdin, calls, ingestModule, soustackModule, canon, applied>>

Next ==
    \/ ReadLine
    \/ \E i \in DOMAIN requests : Settle(i)
    \/ \E i \in DOMAIN requests : WriteResult(i)

MaxLines == 2

\* the sequences of at most n of these lines
LineSequences(lines, n) == UNION { [1..m -> lines] : m \in 0..n }

ServerInit(inputs, ingests, soustacks) ==
    /\ stdin \in inputs
    /\ requests = <<>>
    /\ output = <<>>
    /\ calls = <<>>
    /\ ingestModule \in ingests
    /\ soustackModule \in soustacks

-----------------------------------------------------------------------------
(* The canonicalizer applied to drawn inputs *)

ForeignSchema == "https://example.org/other.schema.json"

SchemaFields == { <<>>, <<Prop("$schema", Str(ForeignSchema))>> }

ProfileFields ==
    { <<>> } \cup
    { <<Prop("profile", p)>> : p \in {Str(""), Str(" "), Str("custom"), Str(" custom "), Num(1)} }

StacksValues ==
    { EmptyObject, Arr(<<>>), Arr(<<Str("b"), Str("a")>>), Arr(<<Num(1)>>),
      Obj(<<Prop("b", Bool(TRUE)), Prop("a", Bool(TRUE))>>),
      Obj(<<Prop("a", Bool(FALSE))>>),
      Obj(<<Prop("b", Obj(<<Prop("d", Num(1)), Prop("c", Num(2))>>))>>),
      Str("a"), Null, Num(0) }

StacksFields == { <<>> } \cup { <<Prop("stacks", s)>> : s \in StacksValues }

RestFields ==
    { <<>>,
      <<Prop("name", Str("pancakes"))>>,
      <<Prop("z", Num(1)),
        Prop("a", Obj(<<Prop("d", Num(1)), Prop("c", Arr(<<Num(2), Num(1)>>))>>))>>,
      <<Prop("name", Str("pancakes")),
        Prop("ingredients", Arr(<<Obj(<<Prop("b", Num(1)), Prop("a", Num(2))>>), Str("z")>>))>>,
      <<Prop("name", Str("pancakes")), Prop("1", Str("b")), Prop("0", Str("a"))>>,
      <<Prop("x-ingest", Obj(<<Prop("__proto__", Obj(<<Prop("a", Num(1))>>)),
                                Prop("B", Num(1)), Prop("b", Num(2))>>))>>,
      <<Prop("source", Obj(<<Prop("0", Num(2)), Prop("b", Num(1)),
                              Prop("$schema", Str("a"))>>))>> }

\* Recipes as a caller or provider can hand them over: any value, objects in
\* own-property order with their fields in either arrangement.
RecipeInputs ==
    { Undefined, Null, Str("pancakes"), Num(1), Bool(TRUE), Arr(<<>>),
      Arr(<<Str("b"), Obj(<<Prop("b", Num(1)), Prop("a", Num(2))>>)>>) }
    \cup { FromEntries(a \o b \o c \o d) :
            a \in SchemaFields, b \in ProfileFields, c \in StacksFields, d \in RestFields }
    \cup { FromEntries(d \o c \o b \o a) :
            a \in SchemaFields, b \in ProfileFields, c \in StacksFields, d \in RestFields }

SlugHints == { Undefined, Str(""), Str(" "), Str("pancakes"), Str(" pancakes") }

\* no helper is being exercised
NotApplied == [pc |-> "idle"]

CanonIdle == [pc |-> "idle", recipe |-> Undefined, slug |-> Undefined,
              once |-> Undefined, twice |-> Undefined]

\* the server has not been started
ServerIdle ==
    /\ stdin = <<>>
    /\ requests = <<>>
    /\ output = <<>>
    /\ calls = <<>>
    /\ ingestModule = Undefined
    /\ soustackModule = Undefined

CanonInit ==
    /\ ServerIdle
    /\ applied = NotApplied
    /\ canon \in { [CanonIdle EXCEPT !.pc = "input", !.recipe = r, !.slug = s] :
                       r \in RecipeInputs, s \in SlugHints }

\* canonicalizeRecipe(recipe, slug)
Canonicalize ==
    /\ canon.pc = "input"
    /\ canon' = [canon EXCEPT !.pc = "once",
                              !.once = canonicalizeRecipe(canon.recipe, canon.slug)]
    /\ UNCHANGED <<serverVars, applied>>

\* canonicalizeRecipe applied to its own result with the same slug hint
Recanonicalize ==
    /\ canon.pc = "once"
    /\ canon' = [canon EXCEPT !.pc = "twice",
                              !.twice = canonicalizeRecipe(canon.once, canon.slug)]
    /\ UNCHANGED <<serverVars, applied>>

CanonNext == Canonicalize \/ Recanonicalize

SpecCanon == CanonInit /\ [][CanonNext]_vars

-----------------------------------------------------------------------------
(* ensureSlug applied to drawn arguments *)

SlugInputs ==
    { Undefined, Null, Num(1), Str(""), Str(" "), Str("!!!"), Str("My Recipe!"),
      Str(" pancakes"), Str("Pancakes"), Str("Simple recipe") }

SourcePaths == { "", "/", "!!!", ".txt", "/a/b/Pancakes.txt", "a\\b.c/", "notes.v2.md" }

SlugInit ==
    /\ ServerIdle
    /\ canon = CanonIdle
    /\ applied \in { [pc |-> "input", slug |-> slug, name |-> name,
                       sourcePath |-> sourcePath, result |-> ""] :
                         slug \in SlugInputs, name \in SlugInputs,
                         sourcePath \in SourcePaths }

\* ensureSlug(slug, name, sourcePath)
EnsureSlug ==
    /\ applied.pc = "input"
    /\ applied' = [applied EXCEPT !.pc = "output",
                                  !.result = ensureSlug(applied.slug, applied.name,
                                                        applied.sourcePath)]
    /\ UNCHANGED <<serverVars, canon>>

SpecSlug == SlugInit /\ [][EnsureSlug]_vars

-----------------------------------------------------------------------------
(* The request validators applied to drawn inputs *)

\* a field of an input: absent, or present with one of these values
Field(key, values) == { <<>> } \cup { <<Prop(key, value)>> : value \in values }

IngestInputs ==
    { Obj(inputPath \o outDir \o options) :
        inputPath \in Field("inputPath", { Str(""), Num(5), Str("/a/b/Pancakes.txt") }),
        outDir \in Field("outDir", { Str("/out"), Num(5), Null }),
        options \in Field("options",
            { Str("x"), EmptyObject,
              Obj(<<Prop("emitFiles", Str("yes")), Prop("maxRecipes", Str("3"))>>),
              Obj(<<Prop("emitFiles", Bool(TRUE)), Prop("returnRecipes", Num(1)),
                    Prop("maxRecipes", Null), Prop("strictValidation", Null)>>),
              Obj(<<Prop("emitFiles", Bool(FALSE)), Prop("returnRecipes", Bool(TRUE)),
                    Prop("maxRecipes", Num(3)), Prop("strictValidation", Bool(TRUE))>>) }) }

SegmentInputs ==
    { Obj(text \o options) :
        text \in Field("text", { Str(""), Num(7), Str("pancakes") }),
        options \in Field("options",
            { Null, Str("x"), Arr(<<>>), Obj(<<Prop("maxChunks", Str("2"))>>),
              Obj(<<Prop("maxChunks", Null)>>), Obj(<<Prop("maxChunks", Num(2))>>) }) }

ExtractInputs ==
    { Obj(text \o chunk) :
        text \in Field("text", { Str("pancakes") }),
        chunk \in Field("chunk",
            { Str("x"), Arr(<<>>), EmptyObject,
              Obj(<<Prop("startLine", Num(5)), Prop("endLine", Num(2))>>),
              Obj(<<Prop("startLine", Num(0)), Prop("endLine", Num(-1)),
                    Prop("titleGuess", Num(3))>>),
              Obj(<<Prop("startLine", Str("1")), Prop("endLine", Num(2))>>),
              Obj(<<Prop("startLine", Num(1)), Prop("endLine", Infinity)>>),
              Obj(<<Prop("startLine", Num(1)), Prop("endLine", Num(1)),
                    Prop("titleGuess", Str("Pancakes"))>>) }) }

IntermediateFields(title, ingredients, instructions) ==
    <<Prop("title", title), Prop("ingredients", ingredients), Prop("instructions", instructions)>>

ToSoustackInputs ==
    { Obj(intermediate \o options) :
        intermediate \in Field("intermediate",
            { Null, Str("x"), EmptyObject,
              Obj(IntermediateFields(Str(" "), Str("x"), Arr(<<>>))),
              Obj(IntermediateFields(Str("Pancakes"), Arr(<<Str("Flour"), Num(1)>>),
                                     Arr(<<Str("Mix")>>))
                    \o <<Prop("source", Str("line 1"))>>),
              Obj(IntermediateFields(Str("Pancakes"), Arr(<<>>), Arr(<<>>))
                    \o <<Prop("source", Obj(<<Prop("startLine", Num(3)), Prop("endLine", Num(1)),
                                              Prop("evidence", Num(5))>>))>>),
              Obj(IntermediateFields(Num(1), Arr(<<>>), Null)
                    \o <<Prop("source", Obj(<<Prop("startLine", Str("1")),
                                              Prop("endLine", Null)>>))>>),
              Obj(IntermediateFields(Str("Pancakes"), Arr(<<Str("Flour")>>), Arr(<<>>))
                    \o <<Prop("source", Obj(<<Prop("startLine", Num(1)),
                                              Prop("endLine", Num(4))>>))>>),
              Obj(IntermediateFields(Str("Pancakes"), Arr(<<Str("Flour")>>), Arr(<<>>))) }),
        options \in Field("options",
            { Num(5), EmptyObject, Obj(<<Prop("sourcePath", Num(5))>>),
              Obj(<<Prop("sourcePath", Str("/a/b/Pancakes.txt"))>>) }) }

ValidateInputs ==
    { Obj(recipe) :
        recipe \in Field("recipe", { Null, Str("x"), Num(1), Arr(<<>>), EmptyObject,
                                     Obj(<<Prop("name", Str("Pancakes"))>>) }) }

ValidatorNames ==
    { "parseIngestInput", "parseSegmentInput", "parseExtractInput", "parseToSoustackInput",
      "parseValidateInput" }

InputsOf(validator) ==
    CASE validator = "parseIngestInput" -> IngestInputs
      [] validator = "parseSegmentInput" -> SegmentInputs
      [] validator = "parseExtractInput" -> ExtractInputs
      [] validator = "parseToSoustackInput" -> ToSoustackInputs
      [] validator = "parseValidateInput" -> ValidateInputs

\* what the validator of this name returns: its value, if any, and its errors
ParseRequest(validator, input) ==
    LET parsed == CASE validator = "parseIngestInput" -> parseIngestInput(input)
                    [] validator = "parseSegmentInput" -> parseSegmentInput(input)
                    [] validator = "parseExtractInput" -> parseExtractInput(input)
                    [] validator = "parseToSoustackInput" -> parseToSoustackInput(input)
                    [] validator = "parseValidateInput" -> parseValidateInput(input)
    IN [value |-> parsed.value, errors |-> parsed.errors]

ValidatorsInit ==
    /\ ServerIdle
    /\ canon = CanonIdle
    /\ applied \in { [pc |-> "input", validator |-> validator, input |-> input,
                      result |-> [value |-> Undefined, errors |-> <<>>]] :
                        validator \in ValidatorNames,
                        input \in UNION { InputsOf(v) : v \in ValidatorNames } }
    /\ applied.input \in InputsOf(applied.validator)

\* parsed = parseXInput(input)
ParseInput ==
    /\ applied.pc = "input"
    /\ applied' = [applied EXCEPT !.pc = "parsed",
                                  !.result = ParseRequest(applied.validator, applied.input)]
    /\ UNCHANGED <<serverVars, canon>>

SpecValidators == ValidatorsInit /\ [][ParseInput]_vars

-----------------------------------------------------------------------------
(* The provider resolvers applied to modules that expose functions at chosen
   places *)

\* the resolvers of server.ts
ResolverNames ==
    { "resolveIngestHandler", "resolveSoustackValidator", "resolveNormalizeStage",
      "resolveSegmentStage", "resolveExtractStage", "resolveToSoustackStage",
      "resolveValidateStage" }

\* the export names a resolver looks for
ExportNames(resolver) ==
    CASE resolver = "resolveIngestHandler" -> { "ingestDocument", "ingest", "runIngest", "run" }
      [] resolver = "resolveSoustackValidator" ->
            { "validateRecipe", "validate", "validateRecipePayload" }
      [] resolver = "resolveNormalizeStage" -> { "normalize", "normalizeText", "normalizeInput" }
      [] resolver = "resolveSegmentStage" -> { "segment", "segmentText", "segmentLines" }
      [] resolver = "resolveExtractStage" -> { "extract", "extractRecipe", "extractChunk" }
      [] resolver = "resolveToSoustackStage" -> { "toSoustack" }
      [] resolver = "resolveValidateStage" -> { "validate" }

\* the name of a resolver's stage, as a stages bag holds it
StageName(resolver) ==
    CASE resolver = "resolveIngestHandler" -> "ingest"
      [] resolver = "resolveSoustackValidator" -> "validate"
      [] resolver = "resolveNormalizeStage" -> "normalize"
      [] resolver = "resolveSegmentStage" -> "segment"
      [] resolver = "resolveExtractStage" -> "extract"
      [] resolver = "resolveToSoustackStage" -> "toSoustack"
      [] resolver = "resolveValidateStage" -> "validate"

\* the places of a module where a stage may be exposed: a top-level export,
\* a member of the default export, a stages bag on the module or on its
\* default export
Places(resolver) ==
    { [holder |-> holder, name |-> name] :
        holder \in { "module", "default" }, name \in ExportNames(resolver) }
      \cup { [holder |-> holder, name |-> StageName(resolver)] :
               holder \in { "stages", "default.stages" } }

\* what a module may hold at a place
Exposures(resolver) ==
    { [place |-> place, value |-> value] :
        place \in Places(resolver), value \in { Fn("normalize"), Fn("hang"), Num(1) } }

\* the properties a list of exposures puts on one holder
PropsAt(exposed, holder) ==
    LET there == SelectSeq(exposed, LAMBDA e : e.place.holder = holder)
    IN [k \in DOMAIN there |-> Prop(there[k].place.name, there[k].value)]

\* a holder's member of this name, present when it has properties
Holding(name, props) == IF props = <<>> THEN <<>> ELSE <<Prop(name, Obj(props))>>

\* the module object with these exposures
ModuleExposing(exposed) ==
    Obj(PropsAt(exposed, "module")
          \o Holding("default", PropsAt(exposed, "default")
                                  \o Holding("stages", PropsAt(exposed, "default.stages")))
          \o Holding("stages", PropsAt(exposed, "stages")))

\* what the resolver of this name returns or throws for a module
ResolveStage(resolver, module) ==
    CASE resolver = "resolveIngestHandler" -> resolveIngestHandler(module)
      [] resolver = "resolveSoustackValidator" -> resolveSoustackValidator(module)
      [] resolver = "resolveNormalizeStage" -> resolveNormalizeStage(module)
      [] resolver = "resolveSegmentStage" -> resolveSegmentStage(module)
      [] resolver = "resolveExtractStage" -> resolveExtractStage(module)
      [] resolver = "resolveToSoustackStage" -> resolveToSoustackStage(module)
      [] resolver = "resolveValidateStage" -> resolveValidateStage(module)

\* the lists of at most two exposures at different places
ExposureLists(resolver) ==
    { <<>> } \cup { <<e>> : e \in Exposures(resolver) }
      \cup { pair \in Exposures(resolver) \X Exposures(resolver) :
                pair[1].place # pair[2].place }

ResolveInit ==
    /\ ServerIdle
    /\ canon = CanonIdle
    /\ applied \in UNION { { [pc |-> "module", resolver |-> resolver, exposed |-> exposed,
                              result |-> Returned(Undefined)] :
                                exposed \in ExposureLists(resolver) } :
                           resolver \in ResolverNames }

\* handler = resolveX(module)
Resolve ==
    /\ applied.pc = "module"
    /\ applied' = [applied EXCEPT
                     !.pc = "resolved",
                     !.result = ResolveStage(applied.resolver, ModuleExposing(applied.exposed))]
    /\ UNCHANGED <<serverVars, canon>>

SpecResolve == ResolveInit /\ [][Resolve]_vars

-----------------------------------------------------------------------------
(* The server on a stream of protocol lines, and on one tool request with
   every pair of providers *)

Init ==
    /\ ServerInit(LineSequences(ProtocolLines, MaxLines),
                  {IngestTopLevel}, {SoustackFixture, SoustackHangs, SoustackMissing})
    /\ canon = CanonIdle
    /\ applied = NotApplied

Spec == Init /\ [][Next]_vars

ToolsInit ==
    /\ ServerInit({ <<line>> : line \in ToolLines }, IngestModules, SoustackModules)
    /\ canon = CanonIdle
    /\ applied = NotApplied

SpecTools == ToolsInit /\ [][Next]_vars

\* a document is ingested and a recipe it may return is then sent to be validated
RevalidateInit ==
    /\ ServerInit({ <<Line.document, Line.validateSimple>>, <<Line.document, Line.validateA>> },
                  {IngestTopLevel}, SoustackModules)
    /\ canon = CanonIdle
    /\ applied = NotApplied

SpecRevalidate == RevalidateInit /\ [][Next]_vars


\* the event loop runs every callback that is ready: each line readline has
\* emitted is handed to its callback, and a handler continues once the
\* operation it awaits has settled
Scheduling ==
    /\ WF_vars(ReadLine)
    /\ \A i \in 1..MaxLines :
          /\ WF_vars(i \in DOMAIN requests /\ Settle(i))
          /\ WF_vars(i \in DOMAIN requests /\ WriteResult(i))

\* a stream of lines of each kind, with an ingest module whose import fails
\* and a validator module whose import never settles or fails
FairInit ==
    /\ ServerInit(LineSequences({ Line.spaces, Line.malformed, Line.ping, Line.segment,
                                  Line.validateName }, MaxLines),
                  {IngestMissing}, {SoustackHangs, SoustackMissing})
    /\ canon = CanonIdle
    /\ applied = NotApplied

SpecFair == FairInit /\ [][Next]_vars /\ Scheduling

-----------------------------------------------------------------------------
(* Properties of the protocol *)

\* what has been written in answer to the line delivered i-th
ResponsesTo(i) == SelectSeq(output, LAMBDA w : w.line = i)
\* the provider interactions begun for the line delivered i-th
CallsOf(i) == SelectSeq(calls, LAMBDA c : c.line = i)

Blank(line) == Trim(line) = ""
Delivered(i) == i \in DOMAIN requests
\* the callback of line i is parked at an await inside its handler
Pending(i) == requests[i].pc = "running" /\ requests[i].h.pc # "settled"
Answered(i) == Delivered(i) /\ requests[i].pc = "answered"

Malformed(line) == ~Blank(line) /\ JSONParse(Trim(line)).kind = "throw"
Parsed(line) == JSONParse(Trim(line)).value
\* string id, string tool, non-null object input
WellShaped(value) ==
    /\ value.t = "object"
    /\ Get(value, "id").t = "string"
    /\ Get(value, "tool").t = "string"
    /\ Get(value, "input").t \in {"object", "array"}
IsRequestLine(line) == ~Blank(line) /\ ~Malformed(line) /\ WellShaped(Parsed(line))
MisshapenLine(line) == ~Blank(line) /\ ~Malformed(line) /\ ~WellShaped(Parsed(line))

ErrorCode(json) == Get(Get(json, "error"), "code")
ErrorText(json) == Get(Get(json, "error"), "message")
ErrorCause(json) == Get(Get(Get(json, "error"), "details"), "error")
IsFailure(json, id, code, message) ==
    /\ Get(json, "id") = id
    /\ Get(json, "ok") = Bool(FALSE)
    /\ ErrorCode(json) = Str(code)
    /\ ErrorText(json) = Str(message)
    /\ Get(json, "output") = Undefined
IsToolError(json, id, cause) ==
    /\ IsFailure(json, id, "tool_error", "Tool execution failed.")
    /\ ErrorCause(json) = Str(cause)
IsSuccess(json, id) ==
    /\ Get(json, "id") = id
    /\ Get(json, "ok") = Bool(TRUE)
    /\ Get(json, "error") = Undefined

\* C1: a blank line is never answered.  A line that is not blank has no
\* response while its callback waits inside its handler, exactly one once the
\* callback has returned, and never more; when the handler has settled the one
\* write is due.  Every write is one JSON object followed by one newline.
C1_OneResponsePerLine ==
    /\ \A j \in DOMAIN output :
          /\ output[j].eol = "\n"
          /\ output[j].json.t = "object"
          /\ output[j].line \in DOMAIN requests
    /\ \A i \in DOMAIN requests :
          IF Blank(requests[i].line) THEN Len(ResponsesTo(i)) = 0
          ELSE /\ Len(ResponsesTo(i)) = IF requests[i].pc = "answered" THEN 1 ELSE 0
               /\ requests[i].pc # "answered" => (Pending(i) \/ ENABLED WriteResult(i))

\* a blank line left unanswered next to a tool request answered once, after its
\* handler ran asynchronously
C1_Witness ==
    \E i, j \in DOMAIN requests :
        /\ Blank(requests[i].line) /\ Len(ResponsesTo(i)) = 0
        /\ requests[j].line = Line.validateName
        /\ Answered(j) /\ Len(CallsOf(j)) = 2 /\ Len(ResponsesTo(j)) = 1
        /\ stdin = <<>>

\* C2: a line that is not blank and is not JSON is answered at once by one
\* failure with id null, code invalid_json and the parser's message in
\* error.details; no handler is invoked and no provider is touched.
C2_InvalidJson ==
    \A i \in DOMAIN requests :
        Malformed(requests[i].line) =>
            /\ Len(ResponsesTo(i)) = 1
            /\ IsFailure(ResponsesTo(i)[1].json, Null, "invalid_json",
                         "Request was not valid JSON.")
            /\ ErrorCause(ResponsesTo(i)[1].json)
                 = Str(JSONParse(Trim(requests[i].line)).error.v)
            /\ ~requests[i].invoked
            /\ CallsOf(i) = <<>>

C2_Witness ==
    \E i \in DOMAIN requests :
        /\ requests[i].line = Line.malformed
        /\ Len(ResponsesTo(i)) = 1
        /\ ErrorCode(ResponsesTo(i)[1].json) = Str("invalid_json")

\* C3: a line that is JSON but not a Request is answered at once by one
\* failure with id null and code invalid_request, also when the value carries
\* a string id; no handler is invoked.
C3_InvalidRequest ==
    \A i \in DOMAIN requests :
        MisshapenLine(requests[i].line) =>
            /\ Len(ResponsesTo(i)) = 1
            /\ IsFailure(ResponsesTo(i)[1].json, Null, "invalid_request",
                         "Request did not match the expected shape.")
            /\ ~requests[i].invoked
            /\ CallsOf(i) = <<>>

\* a value with a string id and no input, refused with id null
C3_Witness ==
    \E i \in DOMAIN requests :
        /\ requests[i].line = Line.noInput
        /\ Get(Parsed(requests[i].line), "id") = Str("a")
        /\ Len(ResponsesTo(i)) = 1
        /\ ErrorCode(ResponsesTo(i)[1].json) = Str("invalid_request")
        /\ Get(ResponsesTo(i)[1].json, "id") = Null

\* C4: a well-shaped request naming a tool outside the catalogue is answered
\* at once by one failure with the request's id, code tool_not_found and the
\* message 'Tool "<name>" is not available.'; nothing is executed on its input.
C4_UnknownToolNotFound ==
    \A i \in DOMAIN requests :
        (/\ IsRequestLine(requests[i].line)
         /\ Get(Parsed(requests[i].line), "tool").v \notin ToolNames) =>
            /\ Len(ResponsesTo(i)) = 1
            /\ IsFailure(ResponsesTo(i)[1].json, Get(Parsed(requests[i].line), "id"),
                         "tool_not_found",
                         NotAvailable(Get(Parsed(requests[i].line), "tool").v))
            /\ ~requests[i].invoked

\* C5: the id of every response is the id of the request line that caused it,
\* or null; it is null exactly when the line was not JSON or not a Request.
C5_IdEchoedOrNull ==
    \A j \in DOMAIN output :
        LET line == requests[output[j].line].line
            id == Get(output[j].json, "id")
        IN IF IsRequestLine(line)
           THEN id = Get(Parsed(line), "id") /\ id # Null
           ELSE id = Null

\* one stream holding a refused line answered with null and a request answered
\* with its own id
C5_Witness ==
    \E j, k \in DOMAIN output :
        /\ Get(output[j].json, "id") = Null
        /\ requests[output[j].line].line = Line.numericId
        /\ Get(output[k].json, "id") = Str("p")
        /\ requests[output[k].line].line = Line.ping

-----------------------------------------------------------------------------
(* Properties of the tool handlers *)

ProviderTools ==
    { "ingest.segment", "ingest.extract", "ingest.toSoustack", "ingest.validate",
      "ingest.document" }

ToolOf(line) == Get(Parsed(line), "tool").v
InputOf(line) == Get(Parsed(line), "input")
IdOf(line) == Get(Parsed(line), "id")

\* what the tool's input validator reports on this input
Violations(tool, input) ==
    CASE tool = "ingest.segment" -> parseSegmentInput(input).errors
      [] tool = "ingest.extract" -> parseExtractInput(input).errors
      [] tool = "ingest.toSoustack" -> parseToSoustackInput(input).errors
      [] tool = "ingest.validate" -> parseValidateInput(input).errors
      [] tool = "ingest.document" -> parseIngestInput(input).errors

\* the tool's empty shape, with an error list beside it
HasEmptyShape(tool, out) ==
    CASE tool = "ingest.segment" ->
            ObjectKeys(out) = <<"chunks", "errors">> /\ Get(out, "chunks") = Arr(<<>>)
      [] tool = "ingest.extract" ->
            ObjectKeys(out) = <<"intermediate", "errors">> /\ Get(out, "intermediate") = Null
      [] tool = "ingest.toSoustack" ->
            ObjectKeys(out) = <<"recipe", "errors">> /\ Get(out, "recipe") = Null
      [] tool = "ingest.validate" ->
            ObjectKeys(out) = <<"ok", "errors">> /\ Get(out, "ok") = Bool(FALSE)
      [] tool = "ingest.document" ->
            /\ ObjectKeys(out) = <<"ok", "source", "errors">>
            /\ Get(out, "ok") = Bool(FALSE)
            /\ ObjectKeys(Get(out, "source")) = <<"inputPath">>
            /\ Get(Get(out, "source"), "inputPath").t = "string"

OrderingViolation == "chunk.startLine must be less than or equal to chunk.endLine."

Includes(array, string) == \E k \in DOMAIN array.v : array.v[k] = Str(string)

\* a request to a provider-backed tool whose input its validator refuses
RefusedRequest(line) ==
    /\ IsRequestLine(line)
    /\ ToolOf(line) \in ProviderTools
    /\ Len(Violations(ToolOf(line), InputOf(line))) > 0

\* C6: when the input validator of ingest.segment, ingest.extract,
\* ingest.toSoustack, ingest.validate or ingest.document reports a violation,
\* no provider is touched and the response is a protocol success whose output
\* is the tool's empty shape with the validator's full error list; the extract
\* request with startLine 5 and endLine 2 is answered with intermediate null
\* and the ordering violation among its errors.
C6_ValidatorFailureIsSuccess ==
    \A i \in DOMAIN requests :
        LET line == requests[i].line
        IN /\ RefusedRequest(line) =>
                /\ CallsOf(i) = <<>>
                /\ Answered(i) => Len(ResponsesTo(i)) = 1
                /\ \A j \in DOMAIN ResponsesTo(i) :
                      LET json == ResponsesTo(i)[j].json
                      IN /\ IsSuccess(json, IdOf(line))
                         /\ HasEmptyShape(ToolOf(line), Get(json, "output"))
                         /\ Get(Get(json, "output"), "errors")
                              = StrArr(Violations(ToolOf(line), InputOf(line)))
           /\ line = Line.extractOrder =>
                \A j \in DOMAIN ResponsesTo(i) :
                    LET json == ResponsesTo(i)[j].json
                    IN /\ IsSuccess(json, Str("e2"))
                       /\ Get(Get(json, "output"), "intermediate") = Null
                       /\ Includes(Get(Get(json, "output"), "errors"), OrderingViolation)

C6_Witness ==
    \E i \in DOMAIN requests :
        /\ requests[i].line = Line.extractOrder
        /\ Answered(i)
        /\ Len(ResponsesTo(i)) = 1
        /\ Get(ResponsesTo(i)[1].json, "ok") = Bool(TRUE)
        /\ Includes(Get(Get(ResponsesTo(i)[1].json, "output"), "errors"), OrderingViolation)

\* the loads and resolutions a handler performs before it calls a provider, in order
ProviderSteps(tool) ==
    CASE tool = "ingest.segment" ->
            << ImportOutcome(ingestModule), resolveNormalizeStage(ingestModule),
               resolveSegmentStage(ingestModule) >>
      [] tool = "ingest.extract" ->
            << ImportOutcome(ingestModule), resolveNormalizeStage(ingestModule),
               resolveExtractStage(ingestModule) >>
      [] tool = "ingest.toSoustack" ->
            << ImportOutcome(ingestModule), resolveToSoustackStage(ingestModule) >>
      [] tool = "ingest.validate" ->
            << ImportOutcome(soustackModule), resolveSoustackValidator(soustackModule) >>
      [] tool = "ingest.document" ->
            << ImportOutcome(ingestModule), resolveIngestHandler(ingestModule),
               ImportOutcome(soustackModule), resolveSoustackValidator(soustackModule) >>

ProviderUnusable(tool) == \E k \in DOMAIN ProviderSteps(tool) : ProviderSteps(tool)[k].kind = "throw"
\* the first load or resolution that fails
ProviderFailure(tool) ==
    LET steps == ProviderSteps(tool)
        first == CHOOSE k \in DOMAIN steps :
                    /\ steps[k].kind = "throw"
                    /\ \A m \in 1..(k - 1) : steps[m].kind # "throw"
    IN steps[first].error

\* a valid request to a provider-backed tool whose provider fails to load or resolve
UnprovidedRequest(line) ==
    /\ IsRequestLine(line)
    /\ ToolOf(line) \in ProviderTools
    /\ Len(Violations(ToolOf(line), InputOf(line))) = 0
    /\ ProviderUnusable(ToolOf(line))

\* the handler of request i was called and threw, or settled by throwing
HandlerThrew(i) == requests[i].invoked /\ requests[i].h.result.kind = "throw"
HandlerReturned(i) == requests[i].invoked /\ requests[i].h.result.kind = "return"

-----------------------------------------------------------------------------
(* Properties of the canonicalizer *)

Canonicalized == canon.pc \in {"once", "twice"}

\* C8: whatever the recipe and the slug hint, the canonicalizer's output has
\* $schema equal to https://spec.soustack.org/soustack.schema.json.
C8_SchemaIsCanonical ==
    Canonicalized =>
        Get(canon.once, "$schema") = Str("https://spec.soustack.org/soustack.schema.json")

\* a recipe carrying another $schema, canonicalized
C8_Witness ==
    /\ Canonicalized
    /\ Get(canon.recipe, "$schema") = Str(ForeignSchema)
    /\ Get(canon.once, "$schema") = Str("https://spec.soustack.org/soustack.schema.json")

\* C9: every output of the canonicalizer has a stacks field that is a
\* non-empty mapping (not a sequence) whose markers are all truthy.
C9_StacksNonEmptyMapping ==
    Canonicalized =>
        LET stacks == Get(canon.once, "stacks")
        IN /\ stacks.t = "object"
           /\ Len(stacks.v) > 0
           /\ \A k \in DOMAIN stacks.v : Truthy(stacks.v[k].v)

\* C10: canonicalizing the canonicalizer's output again, with the same slug
\* hint, changes nothing.
C10_Idempotent ==
    canon.pc = "twice" => canon.twice = canon.once

\* a recipe the canonicalizer changed, canonicalized twice
C10_Witness ==
    /\ canon.pc = "twice"
    /\ canon.recipe.t = "object"
    /\ canon.once.t = "object"
    /\ Get(canon.recipe, "stacks") # Undefined
    /\ Len(canon.once.v) # Len(canon.recipe.v)
    /\ canon.twice = canon.once


\* keys in ascending order of the comparator sortObjectKeys sorts with
Ascending(keys) ==
    \A i, j \in DOMAIN keys : i < j => LocaleCompare(keys[i], keys[j]) < 0

\* the own-property order of an object whose keys were assigned in ascending
\* order: the integer-like keys in numeric order, then the others ascending
AssignedAscending(keys) ==
    \A i, j \in DOMAIN keys : i < j =>
        IF IsIndexKey(keys[j])
        THEN IsIndexKey(keys[i]) /\ IndexOfKey(keys[i]) < IndexOfKey(keys[j])
        ELSE IsIndexKey(keys[i]) \/ LocaleCompare(keys[i], keys[j]) < 0

RECURSIVE NestedKeysAscending(_)
\* every mapping in value, value included, serializes its keys ascending
NestedKeysAscending(value) ==
    CASE value.t = "array" -> \A i \in DOMAIN value.v : NestedKeysAscending(value.v[i])
      [] value.t = "object" ->
            /\ Ascending(Keys(value.v))
            /\ \A i \in DOMAIN value.v : NestedKeysAscending(value.v[i].v)
      [] OTHER -> TRUE

RECURSIVE NestedKeysAssigned(_)
\* every mapping in value, value included, has its keys as assigned ascending
NestedKeysAssigned(value) ==
    CASE value.t = "array" -> \A i \in DOMAIN value.v : NestedKeysAssigned(value.v[i])
      [] value.t = "object" ->
            /\ AssignedAscending(Keys(value.v))
            /\ \A i \in DOMAIN value.v : NestedKeysAssigned(value.v[i].v)
      [] OTHER -> TRUE

HeaderKeys == <<"$schema", "profile", "stacks">>

-----------------------------------------------------------------------------
(* Properties of the slugs *)

RECURSIVE SlugGroups(_, _)
\* the maximal groups of [a-z0-9] characters in chars, in order; group is the
\* one being read
SlugGroups(chars, group) ==
    LET read == IF group = <<>> THEN <<>> ELSE <<group>>
    IN IF chars = <<>> THEN read
       ELSE IF IsSlugChar(Head(chars))
       THEN SlugGroups(Tail(chars), Append(group, Head(chars)))
       ELSE read \o SlugGroups(Tail(chars), <<>>)

RECURSIVE JoinGroups(_)
\* the groups with one hyphen between neighbours
JoinGroups(groups) ==
    IF groups = <<>> THEN <<>>
    ELSE IF Len(groups) = 1 THEN groups[1]
    ELSE groups[1] \o <<"-">> \o JoinGroups(Tail(groups))

\* lowercase, each run of non-alphanumerics one hyphen, no hyphen at the edges
Normalized(chars) ==
    FromChars(JoinGroups(SlugGroups([i \in DOMAIN chars |-> LowerChar(chars[i])], <<>>)))

\* the candidate an explicit slug or a display name gives: none unless a string
TextCandidate(value) == IF value.t = "string" THEN Normalized(Chars(value.v)) ELSE ""

\* the candidate the path gives: its final segment without its extension
PathCandidate(sourcePath) ==
    Normalized(StripExtension(LastSegment(Chars(sourcePath), <<>>)))

Slugged == applied.pc = "output"

\* C12: ensureSlug returns the first non-empty normalized candidate among the
\* explicit slug, the display name, the final path segment without its
\* extension, and "recipe"; ensureSlug("My Recipe!", _, _) is "my-recipe" and
\* ensureSlug(undefined, undefined, "/a/b/Pancakes.txt") is "pancakes".
C12_FirstCandidateWins ==
    Slugged =>
        LET candidates == << TextCandidate(applied.slug), TextCandidate(applied.name),
                             PathCandidate(applied.sourcePath), "recipe" >>
            first == CHOOSE i \in 1..4 :
                        candidates[i] # "" /\ \A j \in 1..(i - 1) : candidates[j] = ""
        IN /\ applied.result = candidates[first]
           /\ applied.slug = Str("My Recipe!") => applied.result = "my-recipe"
           /\ (applied.slug = Undefined /\ applied.name = Undefined
                 /\ applied.sourcePath = "/a/b/Pancakes.txt") => applied.result = "pancakes"

\* a slug and a name that normalize to nothing, so that the path decides
C12_Witness ==
    /\ Slugged
    /\ applied.slug = Str("!!!")
    /\ applied.name = Str(" ")
    /\ applied.sourcePath = "notes.v2.md"
    /\ applied.result = "notes-v2"

-----------------------------------------------------------------------------
(* Properties of ingest.document *)

\* the requests for ingest.document
Documents == { i \in DOMAIN requests : requests[i].tool = "ingest.document" }

\* those whose handler is between two validator calls, its output built
Validating(i) == requests[i].pc = "running" /\ requests[i].h.pc = "validate"

\* those answered with what the handler returned
Returning(i) == Answered(i) /\ HandlerReturned(i) /\ Len(ResponsesTo(i)) = 1

DocumentOutput(i) == Get(ResponsesTo(i)[1].json, "output")

\* the entries of an output's recipes, none when it has no such array
RecipesOf(out) == IF Get(out, "recipes").t = "array" THEN Get(out, "recipes").v ELSE <<>>

\* non-empty, of lowercase letters, digits and hyphens, no hyphen at either
\* edge and no two hyphens in a row
SlugSafe(chars) ==
    /\ chars # <<>>
    /\ \A k \in DOMAIN chars : IsSlugChar(chars[k]) \/ chars[k] = "-"
    /\ chars[1] # "-"
    /\ chars[Len(chars)] # "-"
    /\ \A k \in 1..(Len(chars) - 1) : ~(chars[k] = "-" /\ chars[k + 1] = "-")

EntriesSlugSafe(entries) ==
    \A j \in DOMAIN entries :
        /\ Get(entries[j], "slug").t = "string"
        /\ SlugSafe(Chars(Get(entries[j], "slug").v))

\* C13: every recipe entry ingest.document has built, and so every entry it
\* returns, carries a slug that is slug-safe, whatever slug and name the
\* provider supplied and whatever the input path.
C13_SlugsAreSafe ==
    \A i \in Documents :
        /\ Validating(i) => EntriesSlugSafe(RecipesOf(requests[i].h.k.built))
        /\ Returning(i) => EntriesSlugSafe(RecipesOf(DocumentOutput(i)))

\* a document answered with the entries whose provider slugs were
\* "My Recipe!", "!!!" and none
C13_Witness ==
    \E i \in Documents :
        /\ Returning(i)
        /\ requests[i].line = Line.documentNotes
        /\ Len(RecipesOf(DocumentOutput(i))) = 3
        /\ Get(RecipesOf(DocumentOutput(i))[1], "slug") = Str("my-recipe")
        /\ Get(RecipesOf(DocumentOutput(i))[2], "slug") = Str("notes-v2")
        /\ Get(RecipesOf(DocumentOutput(i))[3], "slug") = Str("notes-v2")

\* the calls of the document-level ingest function made for request i
IngestCalls(i) ==
    SelectSeq(CallsOf(i), LAMBDA c : c.await.op = "call" /\ c.await.stage = "ingest")

\* the provider's ingest function returned a result for request i
Ingested(i) == Len(IngestCalls(i)) = 1 /\ IngestCalls(i)[1].outcome.kind = "return"
ProviderResult(i) == IngestCalls(i)[1].outcome.value

\* the entries the provider returned, as extractRecipes reads them
ProviderEntries(i) == extractRecipes(ProviderResult(i))

InputPath(i) == Get(InputOf(requests[i].line), "inputPath").v

SlugsOf(entries) == [j \in DOMAIN entries |-> Get(entries[j], "slug")]

\* ascending by slug, and by name where the slugs are equal
OrderedBySlugThenName(entries) ==
    \A a, b \in DOMAIN entries : a < b =>
        LET slugs == LocaleCompare(Get(entries[a], "slug").v, Get(entries[b], "slug").v)
            names == LocaleCompare(Get(entries[a], "name").v, Get(entries[b], "name").v)
        IN slugs < 0 \/ (slugs = 0 /\ names <= 0)

\* the returned entries are the provider's, one for one, under their slugs
SameEntries(given, entries, inputPath) ==
    /\ Len(given) = Len(entries)
    /\ \E f \in [DOMAIN given -> DOMAIN entries] :
          /\ \A a, b \in DOMAIN given : a # b => f[a] # f[b]
          /\ \A a \in DOMAIN given :
                Get(entries[f[a]], "slug")
                  = Str(ensureSlug(Get(given[a], "slug"), Get(given[a], "name"), inputPath))

\* C14: the recipes ingest.document returns are the provider's entries in
\* ascending order of slug and, for equal slugs, of name, whatever order the
\* provider returned them in; entries returned with slugs "b-recipe" then
\* "a-recipe" come out as "a-recipe" then "b-recipe".
C14_RecipesOrdered ==
    \A i \in Documents :
        (Returning(i) /\ Ingested(i) /\ Get(DocumentOutput(i), "recipes").t = "array") =>
            LET entries == RecipesOf(DocumentOutput(i))
            IN /\ OrderedBySlugThenName(entries)
               /\ SameEntries(ProviderEntries(i), entries, InputPath(i))
               /\ SlugsOf(ProviderEntries(i)) = <<Str("b-recipe"), Str("a-recipe")>>
                    => SlugsOf(entries) = <<Str("a-recipe"), Str("b-recipe")>>

\* a provider that returned "b-recipe" before "a-recipe", answered
C14_Witness ==
    \E i \in Documents :
        /\ Returning(i)
        /\ Ingested(i)
        /\ SlugsOf(ProviderEntries(i)) = <<Str("b-recipe"), Str("a-recipe")>>
        /\ SlugsOf(RecipesOf(DocumentOutput(i))) = <<Str("a-recipe"), Str("b-recipe")>>

\* the validator calls made for request i, one for each recipe in turn
ValidatorCalls(i) ==
    SelectSeq(CallsOf(i), LAMBDA c : c.await.op = "call" /\ c.await.stage = "validate")

\* the validator returned a result that is not ok
Rejects(c) ==
    /\ c.outcome.kind = "return"
    /\ isRecord(c.outcome.value)
    /\ Get(c.outcome.value, "ok") # Bool(TRUE)

\* a validator call of request i raised
ValidatorRaised(i) == \E j \in DOMAIN ValidatorCalls(i) : ValidatorCalls(i)[j].outcome.kind = "throw"

\* the messages of a validator's result, in the validator's order
Reported(result) ==
    LET errors == Get(result, "errors")
    IN IF IsArray(errors) THEN [k \in DOMAIN errors.v |-> StringOf(errors.v[k])] ELSE <<>>

\* the entries the handler validates: the provider's, normalized and sorted
BuiltEntries(i) ==
    normalizeDocumentRecipes(ProviderResult(i), InputOf(requests[i].line)).value.v

ErrorsOf(out) == [k \in DOMAIN Get(out, "errors").v |-> Get(out, "errors").v[k].v]

MessagesAscending(messages) ==
    \A a, b \in DOMAIN messages : a < b => LocaleCompare(messages[a], messages[b]) <= 0

\* the orders these messages can be put in
Arrangements(messages) ==
    { [k \in DOMAIN messages |-> messages[p[k]]] :
        p \in { q \in [DOMAIN messages -> DOMAIN messages] :
                  \A a, b \in DOMAIN messages : a # b => q[a] # q[b] } }

\* what a rejection of the recipe of this slug contributes: its messages in
\* ascending order, each prefixed, or the prefixed fixed message
Contribution(slug, reported) ==
    IF reported = <<>> THEN { <<Prefixed(slug, "Validation failed.")>> }
    ELSE { [k \in DOMAIN sorted |-> Prefixed(slug, sorted[k])] :
             sorted \in { m \in Arrangements(reported) : MessagesAscending(m) } }

\* these messages stand side by side in the list
AppearsIn(block, errors) ==
    \E offset \in 0..(Len(errors) - Len(block)) :
        SubSeq(errors, offset + 1, offset + Len(block)) = block

\* the recipe of validator call j was rejected and the output shows it
RejectionShown(i, j) ==
    LET out == DocumentOutput(i)
        slug == Get(BuiltEntries(i)[j], "slug").v
    IN /\ Get(out, "ok") = Bool(FALSE)
       /\ \E block \in Contribution(slug, Reported(ValidatorCalls(i)[j].outcome.value)) :
             AppearsIn(block, ErrorsOf(out))

ProviderSucceeded(i) ==
    /\ Ingested(i)
    /\ ~(isRecord(ProviderResult(i)) /\ Get(ProviderResult(i), "ok") = Bool(FALSE))

\* the errors the provider reported, as buildErrorList reads them
ProviderErrors(i) == buildErrorList(ProviderResult(i))

\* the recipe of validator call j was found invalid
FoundInvalid(c) ==
    c.outcome.kind = "return" /\ (Rejects(c) \/ ~isRecord(c.outcome.value))

\* at least one validation error was gathered for request i
ValidationErrorsGathered(i) ==
    \E j \in DOMAIN ValidatorCalls(i) : FoundInvalid(ValidatorCalls(i)[j])

\* reading a property of a null or undefined entry raises while the recipes
\* are normalized
NormalizingRaised(i) ==
    /\ Truthy(EffectiveReturnRecipes(InputOf(requests[i].line)))
    /\ \E k \in DOMAIN ProviderEntries(i) : ProviderEntries(i)[k].t \in {"null", "undefined"}

\* the output's errors begin with the provider's
ProviderErrorsFirst(i) ==
    SubSeq(ErrorsOf(DocumentOutput(i)), 1, Len(ProviderErrors(i))) = ProviderErrors(i)

ProviderRaised(i) == Len(IngestCalls(i)) = 1 /\ IngestCalls(i)[1].outcome.kind = "throw"

\* the provider's ingest function returned a result with ok false
ProviderRefused(i) ==
    /\ Ingested(i)
    /\ isRecord(ProviderResult(i))
    /\ Get(ProviderResult(i), "ok") = Bool(FALSE)

\* {ok: false, source: {inputPath}, errors} and no other field
TerminalFailure(out, inputPath, errors) ==
    out = Obj(<<Prop("ok", Bool(FALSE)),
                Prop("source", Obj(<<Prop("inputPath", Str(inputPath))>>)),
                Prop("errors", StrArr(errors))>>)

\* C17: when the provider's ingest function raises or returns a result with
\* ok false, ingest.document answers {ok: false, source, errors} and nothing
\* else (no recipes, no emitted), the errors being the exception's message,
\* or the provider's errors in ascending order, or the fixed
\* "Ingest pipeline reported failure." if it supplied none; the validator is
\* not called for that request, neither before the answer nor after.
C17_ProviderFailureIsTerminal ==
    \A i \in Documents :
        /\ (ProviderRaised(i) \/ ProviderRefused(i)) => ValidatorCalls(i) = <<>>
        /\ (Returning(i) /\ ProviderRaised(i)) =>
              TerminalFailure(DocumentOutput(i), InputPath(i),
                              <<ErrorMessage(IngestCalls(i)[1].outcome.error)>>)
        /\ (Returning(i) /\ ProviderRefused(i)) =>
              \E errors \in (IF Reported(ProviderResult(i)) = <<>>
                             THEN { <<"Ingest pipeline reported failure.">> }
                             ELSE { m \in Arrangements(Reported(ProviderResult(i))) :
                                      MessagesAscending(m) }) :
                 TerminalFailure(DocumentOutput(i), InputPath(i), errors)

\* a request that asked for emitted files, answered after the provider
\* returned ok false with errors, recipes and emitted files
C17_Witness ==
    \E i \in Documents :
        /\ Returning(i)
        /\ requests[i].line = Line.documentOptions
        /\ ProviderRefused(i)
        /\ Get(ProviderResult(i), "emitted") = SampleEmitted
        /\ Len(extractRecipes(ProviderResult(i))) = 1
        /\ ErrorsOf(DocumentOutput(i)) = <<"skipped a", "skipped b">>
        /\ ValidatorCalls(i) = <<>>

-----------------------------------------------------------------------------
(* Properties of ingest.validate *)

\* the requests for ingest.validate whose input parseValidateInput accepts
Validations ==
    { i \in DOMAIN requests :
        /\ requests[i].tool = "ingest.validate"
        /\ requests[i].invoked
        /\ Truthy(parseValidateInput(InputOf(requests[i].line)).value) }

SubmittedRecipe(i) == Get(InputOf(requests[i].line), "recipe")

\* the ingest module exposes a validate stage
IngestValidates ==
    /\ ingestModule.t = "object"
    /\ resolveValidateStage(ingestModule).kind = "return"

\* how the validate stage of the ingest module answers the recipe of request i
IngestVerdicts(i) ==
    ProviderCall(resolveValidateStage(ingestModule).value.v, <<SubmittedRecipe(i)>>)

\* C18: ingest.validate runs the validate stage of the ingest module: where
\* that stage rejects the submitted recipe, the request is answered with a
\* protocol-level success whose output has ok false and, as errors, the error
\* list of that stage.
C18_ValidateRunsIngestStage ==
    \A i \in Validations :
        (Answered(i) /\ IngestValidates) =>
            \A verdict \in IngestVerdicts(i) :
                (verdict.kind = "return" /\ Get(verdict.value, "ok") = Bool(FALSE)) =>
                    \A j \in DOMAIN ResponsesTo(i) :
                        LET json == ResponsesTo(i)[j].json
                        IN /\ IsSuccess(json, IdOf(requests[i].line))
                           /\ Get(Get(json, "output"), "ok") = Bool(FALSE)
                           /\ Get(Get(json, "output"), "errors") = Get(verdict.value, "errors")

\* the recipe bodies a document was answered with
ReturnedBodies(i) ==
    { Get(RecipesOf(DocumentOutput(i))[j], "recipe") : j \in DOMAIN RecipesOf(DocumentOutput(i)) }

\* C19: a recipe body that an answered ingest.document request returned,
\* submitted unchanged to ingest.validate in a later request under the same
\* validator module, is answered with output {ok: true, errors: []}.
C19_ReturnedRecipesValidate ==
    \A i \in Documents : \A k \in Validations :
        (/\ i < k
         /\ Returning(i)
         /\ IsSuccess(ResponsesTo(i)[1].json, IdOf(requests[i].line))
         /\ SubmittedRecipe(k) \in ReturnedBodies(i)
         /\ Answered(k)) =>
            \A j \in DOMAIN ResponsesTo(k) :
                /\ IsSuccess(ResponsesTo(k)[j].json, IdOf(requests[k].line))
                /\ Get(ResponsesTo(k)[j].json, "output")
                     = Obj(<<Prop("ok", Bool(TRUE)), Prop("errors", Arr(<<>>))>>)

-----------------------------------------------------------------------------
(* Properties of the request validators *)

\* a non-null object, arrays included, which is what the validators take for
\* an object
ObjectLike(value) == value.t \in {"object", "array"}

FiniteNumber(value) == value.t = "number" /\ "inf" \notin DOMAIN value

NonEmptyString(value) == value.t = "string" /\ value.v # ""

StringList(value) == value.t = "array" /\ \A n \in DOMAIN value.v : value.v[n].t = "string"

\* the messages of the rules that are broken, a rule being <<broken, message>>
Those(rules) == { rule[2] : rule \in { r \in rules : r[1] } }

\* the rules of an options object, an option being <<key, accepted types, message>>
BrokenOptions(input, known) ==
    LET options == Get(input, "options")
    IN IF ~In("options", input) \/ options = Undefined THEN {}
       ELSE IF ~ObjectLike(options) THEN { "options must be an object when provided." }
       ELSE { option[3] :
                option \in { o \in known : /\ In(o[1], options)
                                           /\ Get(options, o[1]).t \notin (o[2] \cup {"undefined"}) } }

IngestOptions ==
    { <<"emitFiles", {"boolean"}, "options.emitFiles must be a boolean when provided.">>,
      <<"returnRecipes", {"boolean"}, "options.returnRecipes must be a boolean when provided.">>,
      <<"maxRecipes", {"number", "null"}, "options.maxRecipes must be a number or null when provided.">>,
      <<"strictValidation", {"boolean"}, "options.strictValidation must be a boolean when provided.">> }

BrokenIngest(input) ==
    Those({ <<~NonEmptyString(Get(input, "inputPath")), "inputPath must be a non-empty string.">>,
            <<In("outDir", input) /\ Get(input, "outDir").t \notin {"string", "undefined"},
              "outDir must be a string when provided.">> })
      \cup BrokenOptions(input, IngestOptions)

BrokenSegment(input) ==
    Those({ <<~NonEmptyString(Get(input, "text")), "text must be a non-empty string.">> })
      \cup BrokenOptions(input, { <<"maxChunks", {"number", "null"},
                                    "options.maxChunks must be a number or null when provided.">> })

BrokenExtract(input) ==
    LET chunk == Get(input, "chunk")
        startLine == IF ObjectLike(chunk) THEN Get(chunk, "startLine") ELSE Undefined
        endLine == IF ObjectLike(chunk) THEN Get(chunk, "endLine") ELSE Undefined
        titleGuess == IF ObjectLike(chunk) THEN Get(chunk, "titleGuess") ELSE Undefined
    IN Those({ <<~NonEmptyString(Get(input, "text")), "text must be a non-empty string.">>,
               <<~ObjectLike(chunk), "chunk must be an object.">>,
               <<~FiniteNumber(startLine), "chunk.startLine must be a number.">>,
               <<FiniteNumber(startLine) /\ startLine.v <= 0,
                 "chunk.startLine must be greater than zero.">>,
               <<~FiniteNumber(endLine), "chunk.endLine must be a number.">>,
               <<FiniteNumber(endLine) /\ endLine.v <= 0,
                 "chunk.endLine must be greater than zero.">>,
               <<FiniteNumber(startLine) /\ FiniteNumber(endLine) /\ startLine.v > endLine.v,
                 "chunk.startLine must be less than or equal to chunk.endLine.">>,
               <<titleGuess.t \notin {"undefined", "string"},
                 "chunk.titleGuess must be a string when provided.">> })

BrokenSource(source) ==
    LET startLine == Get(source, "startLine")
        endLine == Get(source, "endLine")
    IN IF source = Undefined THEN {}
       ELSE IF ~ObjectLike(source) THEN { "intermediate.source must be an object when provided." }
       ELSE Those({ <<startLine # Undefined /\ ~FiniteNumber(startLine),
                      "intermediate.source.startLine must be a number when provided.">>,
                    <<endLine # Undefined /\ ~FiniteNumber(endLine),
                      "intermediate.source.endLine must be a number when provided.">>,
                    <<FiniteNumber(startLine) /\ FiniteNumber(endLine) /\ startLine.v > endLine.v,
                      "intermediate.source.startLine must be less than or equal to intermediate.source.endLine.">>,
                    <<Get(source, "evidence").t \notin {"undefined", "string"},
                      "intermediate.source.evidence must be a string when provided.">> })

BrokenIntermediate(intermediate) ==
    IF ~ObjectLike(intermediate) THEN { "intermediate must be an object." }
    ELSE Those({ <<~(Get(intermediate, "title").t = "string"
                       /\ Trim(Get(intermediate, "title").v) # ""),
                   "intermediate.title must be a non-empty string.">>,
                 <<~StringList(Get(intermediate, "ingredients")),
                   "intermediate.ingredients must be an array of strings.">>,
                 <<~StringList(Get(intermediate, "instructions")),
                   "intermediate.instructions must be an array of strings.">> })
           \cup BrokenSource(Get(intermediate, "source"))

BrokenToSoustack(input) ==
    BrokenIntermediate(Get(input, "intermediate"))
      \cup BrokenOptions(input, { <<"sourcePath", {"string"},
                                    "options.sourcePath must be a string when provided.">> })

BrokenValidate(input) ==
    Those({ <<~ObjectLike(Get(input, "recipe")), "recipe must be an object.">> })

\* the violations present in an input of this validator
Broken(validator, input) ==
    CASE validator = "parseIngestInput" -> BrokenIngest(input)
      [] validator = "parseSegmentInput" -> BrokenSegment(input)
      [] validator = "parseExtractInput" -> BrokenExtract(input)
      [] validator = "parseToSoustackInput" -> BrokenToSoustack(input)
      [] validator = "parseValidateInput" -> BrokenValidate(input)

\* the fields of the value have the types the validator promises
Typed(validator, value) ==
    LET options == Get(value, "options")
        optional(field, types) == field.t \in (types \cup {"undefined"})
    IN CASE validator = "parseIngestInput" ->
              /\ NonEmptyString(Get(value, "inputPath"))
              /\ optional(Get(value, "outDir"), {"string"})
              /\ optional(options, {"object"})
              /\ optional(Get(options, "emitFiles"), {"boolean"})
              /\ optional(Get(options, "returnRecipes"), {"boolean"})
              /\ optional(Get(options, "maxRecipes"), {"number", "null"})
              /\ optional(Get(options, "strictValidation"), {"boolean"})
         [] validator = "parseSegmentInput" ->
              /\ NonEmptyString(Get(value, "text"))
              /\ optional(options, {"object"})
              /\ optional(Get(options, "maxChunks"), {"number", "null"})
         [] validator = "parseExtractInput" ->
              /\ NonEmptyString(Get(value, "text"))
              /\ FiniteNumber(Get(Get(value, "chunk"), "startLine"))
              /\ FiniteNumber(Get(Get(value, "chunk"), "endLine"))
              /\ 0 < Get(Get(value, "chunk"), "startLine").v
              /\ Get(Get(value, "chunk"), "startLine").v <= Get(Get(value, "chunk"), "endLine").v
              /\ optional(Get(Get(value, "chunk"), "titleGuess"), {"string"})
         [] validator = "parseToSoustackInput" ->
              /\ NonEmptyString(Get(Get(value, "intermediate"), "title"))
              /\ StringList(Get(Get(value, "intermediate"), "ingredients"))
              /\ StringList(Get(Get(value, "intermediate"), "instructions"))
              /\ optional(Get(Get(value, "intermediate"), "source"), {"object", "array"})
              /\ optional(options, {"object"})
              /\ optional(Get(options, "sourcePath"), {"string"})
         [] validator = "parseValidateInput" -> ObjectLike(Get(value, "recipe"))

InputParsed == applied.pc = "parsed"

\* C20: each request validator reports every violation present in its input,
\* each once and nothing else, and returns a value exactly if it reports
\* none; a value it returns has the types it promises.
C20_ValidatorsAccumulate ==
    InputParsed =>
        LET errors == applied.result.errors
            value == applied.result.value
        IN /\ { errors[n] : n \in DOMAIN errors } = Broken(applied.validator, applied.input)
           /\ Len(errors) = Cardinality(Broken(applied.validator, applied.input))
           /\ (value # Undefined) <=> (errors = <<>>)
           /\ (value # Undefined) => Typed(applied.validator, value)

\* parseIngestInput reporting four violations at once, of inputPath, outDir
\* and two options, and returning no value
C20_Witness ==
    /\ InputParsed
    /\ applied.validator = "parseIngestInput"
    /\ applied.result.errors
         = << "inputPath must be a non-empty string.",
              "outDir must be a string when provided.",
              "options.emitFiles must be a boolean when provided.",
              "options.maxRecipes must be a number or null when provided." >>
    /\ applied.result.value = Undefined

-----------------------------------------------------------------------------
(* Further properties of the canonicalizer *)

\* the recipe handed to the canonicalizer has a sequence for its stacks
StacksGivenAsSequence ==
    /\ canon.recipe.t = "object"
    /\ Get(canon.recipe, "stacks").t = "array"

\* C21: when the recipe's stacks is a sequence, the stacks of the
\* canonicalizer's output is a mapping, not a sequence: its keys are the
\* string forms of the sequence's elements, in ascending order, and each is
\* mapped to true.
C21_SequenceBecomesMapping ==
    (Canonicalized /\ StacksGivenAsSequence) =>
        LET given == Get(canon.recipe, "stacks").v
            stacks == Get(canon.once, "stacks")
        IN /\ stacks.t = "object"
           /\ { stacks.v[k].k : k \in DOMAIN stacks.v } = { StringOf(given[n]) : n \in DOMAIN given }
           /\ AssignedAscending(Keys(stacks.v))
           /\ \A k \in DOMAIN stacks.v : stacks.v[k].v = Bool(TRUE)

RECURSIVE DeepEqual(_, _)
\* equal as assert.deepEqual has it: mappings with the same keys and deep-equal
\* values in any key order, sequences with deep-equal elements in the same
\* order, other values identical
DeepEqual(left, right) ==
    CASE left.t = "object" /\ right.t = "object" ->
            /\ { left.v[i].k : i \in DOMAIN left.v } = { right.v[i].k : i \in DOMAIN right.v }
            /\ \A i \in DOMAIN left.v : DeepEqual(left.v[i].v, Get(right, left.v[i].k))
      [] left.t = "array" /\ right.t = "array" ->
            /\ Len(left.v) = Len(right.v)
            /\ \A i \in DOMAIN left.v : DeepEqual(left.v[i], right.v[i])
      [] OTHER -> left = right

\* the fields of the recipe that the canonicalizer does not compute itself
CallerFields ==
    IF canon.recipe.t \in {"object", "array"}
    THEN SelectSeq(Entries(canon.recipe),
                   LAMBDA e : e.k \notin {"$schema", "profile", "stacks"})
    ELSE <<>>

\* C22: every field of the recipe other than $schema, profile and stacks is
\* in the canonicalizer's output with a deep-equal value (nested mappings may
\* differ in key order only, sequences keep their order), and the output has
\* no other fields besides the three.
C22_CallerFieldsKept ==
    Canonicalized =>
        /\ \A n \in DOMAIN CallerFields :
              /\ HasOwn(canon.once.v, CallerFields[n].k)
              /\ DeepEqual(CallerFields[n].v, Get(canon.once, CallerFields[n].k))
        /\ { canon.once.v[i].k : i \in DOMAIN canon.once.v }
             = {"$schema", "profile", "stacks"} \cup { CallerFields[n].k : n \in DOMAIN CallerFields }

-----------------------------------------------------------------------------
(* Further properties of ingest.document *)

\* the request the provider's ingest function was called with
IngestRequest(i) == IngestCalls(i)[1].await.args[1]

\* the caller supplied a directory to emit into
OutDirSupplied(input) == Get(input, "outDir").t = "string" /\ Get(input, "outDir").v # ""

\* the caller's option of this name if given, and this default otherwise
OptionOr(input, name, default) ==
    LET given == Get(Get(input, "options"), name)
    IN IF given.t = "boolean" THEN given.v ELSE default

WantsEmitted(i) ==
    LET input == InputOf(requests[i].line)
    IN OptionOr(input, "emitFiles", OutDirSupplied(input))

WantsRecipes(i) == OptionOr(InputOf(requests[i].line), "returnRecipes", TRUE)

\* the provider's result carries what it emitted, under emitted or as the result itself
EmittedBy(result) ==
    IF result = SampleEmitted THEN result
    ELSE IF result.t = "object" /\ Get(result, "emitted") = SampleEmitted THEN SampleEmitted
    ELSE Undefined

\* the output of request i was built from a provider result, nothing raised
BuiltFromResult(i) ==
    /\ Returning(i)
    /\ ProviderSucceeded(i)
    /\ ~NormalizingRaised(i)
    /\ ~ValidatorRaised(i)

\* C23: the request handed to the provider's ingest function has emitFiles
\* equal to the caller's options.emitFiles if given and otherwise to whether
\* outDir was supplied, and returnRecipes equal to options.returnRecipes if
\* given and otherwise true; an output built from the provider's result has
\* recipes exactly if returnRecipes is in effect, and emitted exactly if
\* emitFiles is in effect and the provider reported what it emitted.
C23_EffectiveOptions ==
    \A i \in Documents :
        /\ IngestCalls(i) # <<>> =>
              /\ Get(IngestRequest(i), "emitFiles") = Bool(WantsEmitted(i))
              /\ Get(IngestRequest(i), "returnRecipes") = Bool(WantsRecipes(i))
        /\ BuiltFromResult(i) =>
              /\ HasOwn(DocumentOutput(i).v, "recipes") <=> WantsRecipes(i)
              /\ Get(DocumentOutput(i), "emitted")
                   = (IF WantsEmitted(i) THEN EmittedBy(ProviderResult(i)) ELSE Undefined)

\* a request with outDir and no options: the provider is asked to emit and
\* to return recipes, and the output has both
C23_Witness ==
    \E i \in Documents :
        /\ requests[i].line = Line.documentOutDir
        /\ BuiltFromResult(i)
        /\ Get(IngestRequest(i), "emitFiles") = Bool(TRUE)
        /\ Get(IngestRequest(i), "returnRecipes") = Bool(TRUE)
        /\ Get(DocumentOutput(i), "emitted") = SampleEmitted
        /\ Len(RecipesOf(DocumentOutput(i))) = 2

\* the validator module cannot be imported or exposes no validator
ValidatorUnresolved ==
    \/ soustackModule.t = "error"
    \/ resolveSoustackValidator(soustackModule).kind = "throw"

\* the ingest module is imported and exposes a document-level function
IngestResolves ==
    /\ ingestModule.t = "object"
    /\ resolveIngestHandler(ingestModule).kind = "return"

\* the ingest.document requests whose input parseIngestInput accepts
AcceptedDocuments ==
    { i \in Documents : Truthy(parseIngestInput(InputOf(requests[i].line)).value) }

\* C24: when no validator can be resolved, ingest.document still calls the
\* provider's ingest function and skips validation: the answer carries the
\* provider's recipes, normalized, and there are no validation errors, so ok
\* is true and the errors are the provider's.
C24_RunsWithoutValidator ==
    \A i \in AcceptedDocuments :
        (Answered(i) /\ IngestResolves /\ ValidatorUnresolved) =>
            /\ IngestCalls(i) # <<>>
            /\ ValidatorCalls(i) = <<>>
            /\ (ProviderSucceeded(i) /\ ~NormalizingRaised(i)) =>
                  /\ Get(DocumentOutput(i), "ok") = Bool(TRUE)
                  /\ ErrorsOf(DocumentOutput(i)) = ProviderErrors(i)
                  /\ WantsRecipes(i) => RecipesOf(DocumentOutput(i)) = BuiltEntries(i)

-----------------------------------------------------------------------------
(* Properties of the stage calls *)

\* the calls of this stage made for request i, in order
StageCalls(i, stage) ==
    SelectSeq(CallsOf(i), LAMBDA c : c.await.op = "call" /\ c.await.stage = stage)

\* the call passes its first argument wrapped in a {text, options?} record
IsWrappedCall(c, bare) ==
    /\ Len(c.await.args) = 1
    /\ c.await.args[1].t = "object"
    /\ Get(c.await.args[1], "text") = bare

\* the bare call comes first, and the wrapped call follows exactly if the
\* bare call raised
BareThenWrapped(attempts) ==
    /\ attempts # <<>> =>
          LET bare == attempts[1].await.args[1]
          IN /\ ~IsWrappedCall(attempts[1], Get(bare, "text"))
             /\ attempts[1].outcome.kind = "return" => Len(attempts) = 1
             /\ attempts[1].outcome.kind = "throw" =>
                   /\ Len(attempts) = 2
                   /\ IsWrappedCall(attempts[2], bare)
    /\ Len(attempts) <= 2

\* C25: for the normalize and the segment stage of every request, the bare
\* call is made first and the wrapped {text, options?} call is made exactly
\* if the bare call raised: always then, also for a segment request without
\* options, and never otherwise.
C25_WrappedIffBareRaised ==
    \A i \in DOMAIN requests :
        /\ BareThenWrapped(StageCalls(i, "normalize"))
        /\ BareThenWrapped(StageCalls(i, "segment"))

\* the tool output of request i shows this message among its errors
ShownInErrors(i, message) ==
    LET errors == Get(DocumentOutput(i), "errors")
    IN /\ errors.t = "array"
       /\ \E k \in DOMAIN errors.v : errors.v[k] = Str(message)

\* the error the bare call of this stage raised for request i reached the output
BareErrorShown(i, stage) ==
    LET attempts == StageCalls(i, stage)
    IN (attempts # <<>> /\ attempts[1].outcome.kind = "throw") =>
          ShownInErrors(i, ErrorMessage(attempts[1].outcome.error))

\* C26: an error the provider raised on the bare call of the normalize or
\* the segment stage is among the errors of the tool's output, whatever the
\* wrapped call did afterwards.
C26_BareErrorNotMasked ==
    \A i \in DOMAIN requests :
        Answered(i) => BareErrorShown(i, "normalize") /\ BareErrorShown(i, "segment")

-----------------------------------------------------------------------------
(* Properties of the resolvers *)

\* the module resolved exposes a function at one of the places at least
ExposesStage == \E k \in DOMAIN applied.exposed : applied.exposed[k].value.t = "function"

\* the message of each resolver for a module without its stage
MissingStage(resolver) == ResolveStage(resolver, Obj(<<>>)).error.v

\* C27: each resolver returns a function the module exposes whenever the
\* module exposes one as a top-level export, as a member of the default
\* export or in a stages bag on either, and for a module that exposes none it
\* throws the error of its own stage, which no other stage shares.
C27_ResolvesEveryPlace ==
    applied.pc = "resolved" =>
        /\ ExposesStage =>
              /\ applied.result.kind = "return"
              /\ \E k \in DOMAIN applied.exposed : applied.result.value = applied.exposed[k].value
        /\ ~ExposesStage =>
              /\ applied.result = Thrown(ErrorOf(MissingStage(applied.resolver)))
              /\ \A other \in ResolverNames \ {applied.resolver} :
                    MissingStage(other) # MissingStage(applied.resolver)

-----------------------------------------------------------------------------
(* Properties of requests in flight *)

\* the handler of request i awaits an operation that never settles
NeverSettles(i) ==
    /\ requests[i].pc = "running"
    /\ requests[i].h.pc # "settled"
    /\ AwaitOutcomes(requests[i].h.await) \ {Hangs} = {}

\* line i has been dealt with for good: ignored when blank, left without a
\* response when its handler awaits for ever, answered once otherwise
DealtWith(i) ==
    /\ Delivered(i)
    /\ IF Blank(requests[i].line) \/ NeverSettles(i)
       THEN ResponsesTo(i) = <<>>
       ELSE Len(ResponsesTo(i)) = 1 /\ requests[i].pc # "running"

\* a response to a request whose handler was invoked is there only once the
\* handler has settled, and no line has two responses
WrittenAfterSettled ==
    \A i \in DOMAIN requests :
        /\ Len(ResponsesTo(i)) <= 1
        /\ NeverSettles(i) => ResponsesTo(i) = <<>>
        /\ (requests[i].invoked /\ ResponsesTo(i) # <<>>) => requests[i].h.pc = "settled"

\* C28: whatever the interleaving, a request whose provider call never
\* settles gets no response, a response is written only after its handler
\* settled, and every line of the input is eventually dealt with: each line
\* that is not blank and whose handler does not await for ever gets exactly
\* one response, whether or not an earlier request is still waiting.
C28_HangingRequestBlocksNoOther ==
    /\ []WrittenAfterSettled
    /\ \A i \in 1..MaxLines : (i <= Len(requests) + Len(stdin)) ~> DealtWith(i)

\* a request waits for ever while a later one, whose handler awaited the
\* provider as well, has got its response
C28_Witness ==
    \E i, j \in DOMAIN requests :
        /\ i < j
        /\ NeverSettles(i) /\ ResponsesTo(i) = <<>>
        /\ requests[j].invoked /\ requests[j].pc = "answered" /\ Len(ResponsesTo(j)) = 1
        /\ CallsOf(j) # <<>>

-----------------------------------------------------------------------------
(* Properties of a failed ingest.document *)

\* the output ingest.document returned for request i says ok: false
ReportsFailure(i) == Returning(i) /\ Get(DocumentOutput(i), "ok") = Bool(FALSE)

\* the output of request i lists one error at least, each a string
ListsErrors(i) ==
    LET errors == Get(DocumentOutput(i), "errors")
    IN /\ errors.t = "array"
       /\ Len(errors.v) > 0
       /\ \A k \in DOMAIN errors.v : errors.v[k].t = "string"

\* the input of request i was refused by parseIngestInput
InputRefused(i) == ~Truthy(parseIngestInput(InputOf(requests[i].line)).value)

\* the handler of request i caught an exception: a module that failed to
\* load or to resolve, or a provider or validator that raised
CaughtException(i) ==
    /\ ~InputRefused(i)
    /\ \/ ~Ingested(i)
       \/ ValidatorRaised(i)
       \/ NormalizingRaised(i)

\* C29: every output of ingest.document with ok false lists at least one
\* error, whether the input was refused, the provider failed or an exception
\* was caught, or validation errors were gathered; an output with ok false
\* comes from one of these paths.
C29_FailureListsErrors ==
    \A i \in Documents :
        ReportsFailure(i) =>
            /\ ListsErrors(i)
            /\ \/ InputRefused(i)
               \/ CaughtException(i)
               \/ ProviderRefused(i)
               \/ ValidationErrorsGathered(i)

\* the provider's ingest function raised and the output lists what it raised
C29_Witness ==
    \E i \in Documents :
        /\ ReportsFailure(i)
        /\ ProviderRaised(i)
        /\ ListsErrors(i)

-----------------------------------------------------------------------------
(* Properties of what reaches the provider *)

\* the requests to a provider-backed tool
ProviderRequests ==
    { i \in DOMAIN requests :
        IsRequestLine(requests[i].line) /\ ToolOf(requests[i].line) \in ProviderTools }

\* the calls of the extract stage, of any request
ExtractCalls == SelectSeq(calls, LAMBDA c : c.await.op = "call" /\ c.await.stage = "extract")

\* a chunk with 0 < startLine <= endLine
WellFormedChunk(chunk) ==
    /\ chunk.t = "object"
    /\ Get(chunk, "startLine").t = "number"
    /\ Get(chunk, "endLine").t = "number"
    /\ 0 < Get(chunk, "startLine").v
    /\ Get(chunk, "startLine").v <= Get(chunk, "endLine").v

\* the text of a request is a string that is not empty
HasText(input) == Get(input, "text").t = "string" /\ Get(input, "text").v # ""

\* C30: a provider module is imported and a provider stage is called only for
\* requests whose input validator reported no violation, and the extract
\* stage is called only with a chunk that has 0 < startLine <= endLine, for a
\* request whose text is not empty.
C30_OnlyValidInputReachesProvider ==
    /\ \A i \in ProviderRequests :
          CallsOf(i) # <<>> =>
              Violations(ToolOf(requests[i].line), InputOf(requests[i].line)) = <<>>
    /\ \A k \in DOMAIN ExtractCalls :
          /\ WellFormedChunk(ExtractCalls[k].await.args[1])
          /\ HasText(InputOf(requests[ExtractCalls[k].line].line))

\* the extract request with startLine above endLine has been answered and
\* nothing was imported or called for it
C30_Witness ==
    \E i \in ProviderRequests :
        /\ requests[i].line = Line.extractOrder
        /\ Violations(ToolOf(requests[i].line), InputOf(requests[i].line)) # <<>>
        /\ Answered(i)
        /\ CallsOf(i) = <<>>

====
